---------------------------- MODULE Spec2Model ----------------------------
(***************************************************************************)
(* State-machine model of the compare engine of the Notepad++ Compare      *)
(* plugin (src/src/Engine/Engine.cpp): line extraction, line-level diff,   *)
(* move detection, block re-alignment, marker / alignment emission and the *)
(* find-unique mode.                                                       *)
(*                                                                         *)
(* Conventions                                                             *)
(*  - offsets, line numbers and in-block indices are 0-based as in the     *)
(*    code; a TLA+ sequence s is read at s[i + 1];                         *)
(*  - a pointer to a block diff is the 1-based index of the block in       *)
(*    blockDiffs, the null pointer is 0;                                   *)
(*  - the 64-bit hash of a byte sequence is modelled collision-free: the   *)
(*    hash value is the sequence of bytes folded into it, the seed is the  *)
(*    empty sequence.                                                      *)
(***************************************************************************)
EXTENDS Integers, Sequences, FiniteSets, TLC

VARIABLES
    options,        \* CompareOptions of the run
    text,           \* view -> document: a non-empty sequence of lines (byte sequences)
    progress,       \* the progress object: [info, open, cancelled, reported]
    pc,             \* position of the run in compareViews / runCompare / runFindUnique
    doc1,           \* DocCmpInfo doc1
    doc2,           \* DocCmpInfo doc2
    blockDiffs,     \* CompareInfo::blockDiffs
    fm,             \* locals of findMoves: [repeat, di, ei, mi, ret, commits, pairs]
    rs,             \* frame of the running resolveMatch call: [lookupDiff, lookupOff, mi, depth]
    loopI,          \* loop index i of the block-compare loop and of markAllDiffs
    alignLines,     \* markAllDiffs: alignLines {first, second}
    uniqueLines,    \* runFindUnique: <<doc1UniqueLines, doc2UniqueLines>>
    alignmentInfo,  \* the caller's alignment output
    sink,           \* the calls made on the marker sink, in order
    result          \* the CompareResult compareViews returns

vars == <<options, text, progress, pc, doc1, doc2, blockDiffs, fm, rs, loopI,
          alignLines, uniqueLines, alignmentInfo, sink, result>>

-----------------------------------------------------------------------------
(* Generic helpers *)

Min(a, b) == IF a < b THEN a ELSE b

Max(a, b) == IF a > b THEN a ELSE b

\* all sequences over S of length 0..n
SeqsUpTo(S, n) == UNION {[1..k -> S] : k \in 0..n}

\* s[i] for a 0-based index i
At(s, i) == s[i + 1]

-----------------------------------------------------------------------------
(* Views, diff types, results *)

MAIN_VIEW == "MAIN_VIEW"

SUB_VIEW == "SUB_VIEW"

Views == {MAIN_VIEW, SUB_VIEW}

DIFF_MATCH == "DIFF_MATCH"

DIFF_IN_1 == "DIFF_IN_1"

DIFF_IN_2 == "DIFF_IN_2"

\* Hash seed: the hash of the empty byte sequence
cHashSeed == <<>>

\* Hash(hval, letter): fold one byte into the hash
Hash(hval, letter) == Append(hval, letter)

section_t(o, l) == [off |-> o, len |-> l]

\* a freshly constructed diff_info<blockDiffInfo>
diffInfo(t, o, l) ==
    [type |-> t, off |-> o, len |-> l,
     matchBlock |-> 0, changedLines |-> <<>>, moves |-> <<>>]

-----------------------------------------------------------------------------
(* LCS engine (DiffCalc): every ordered partition of the two inputs into   *)
(* MATCH / IN_1 / IN_2 segments along a longest common subsequence.        *)

RECURSIVE LcsLen(_, _, _, _)
LcsLen(a, b, i, j) ==
    IF i > Len(a) \/ j > Len(b) THEN 0
    ELSE IF a[i] = b[j] THEN 1 + LcsLen(a, b, i + 1, j + 1)
    ELSE Max(LcsLen(a, b, i + 1, j), LcsLen(a, b, i, j + 1))

\* all alignments (sequences of matched position pairs) of exactly need pairs
\* that use positions from (i, j) on
RECURSIVE AlignmentsFrom(_, _, _, _, _)
AlignmentsFrom(a, b, i, j, need) ==
    IF need = 0 THEN {<<>>}
    ELSE UNION {{<<p>> \o t : t \in AlignmentsFrom(a, b, p[1] + 1, p[2] + 1, need - 1)}
                : p \in {q \in (i..(Len(a) - need + 1)) \X (j..(Len(b) - need + 1))
                                : a[q[1]] = b[q[2]]}}

\* all alignments of maximal length
LcsAlignments(a, b) == AlignmentsFrom(a, b, 1, 1, LcsLen(a, b, 1, 1))

\* the segments of the gap before the next match (or the end): IN_1 then IN_2
GapBlocks(i, j, i2, j2) ==
    (IF i2 > i THEN <<diffInfo(DIFF_IN_1, i - 1, i2 - i)>> ELSE <<>>)
    \o (IF j2 > j THEN <<diffInfo(DIFF_IN_2, j - 1, j2 - j)>> ELSE <<>>)

\* the segment list of alignment al from its k-th pair on; (i, j) are the next
\* unconsumed positions, acc the segments so far
RECURSIVE SegmentsFrom(_, _, _, _, _, _, _)
SegmentsFrom(al, k, i, j, n, m, acc) ==
    IF k > Len(al) THEN acc \o GapBlocks(i, j, n + 1, m + 1)
    ELSE LET pi == al[k][1]
             pj == al[k][2]
             extend == pi = i /\ pj = j /\ acc # <<>> /\ acc[Len(acc)].type = DIFF_MATCH
             acc2 == IF extend
                       THEN [acc EXCEPT ![Len(acc)].len = @ + 1]
                       ELSE acc \o GapBlocks(i, j, pi, pj)
                                \o <<diffInfo(DIFF_MATCH, pi - 1, 1)>>
         IN SegmentsFrom(al, k + 1, pi + 1, pj + 1, n, m, acc2)

\* hashes of a normalized line array
Hashes(lines) == [k \in 1..Len(lines) |-> lines[k].hash]

\* the segment lists of (a, b): one for every alignment of maximal length
Segments(a, b) ==
    {SegmentsFrom(al, 1, 1, 1, Len(a), Len(b), <<>>) : al \in LcsAlignments(a, b)}

\* what DiffCalc(a, b)() may return: [segs, swapped]; when swapped is set the
\* engine has exchanged its inputs and the segments are those of (b, a)
DiffCalc(a, b) ==
    {[segs |-> x, swapped |-> FALSE] : x \in Segments(a, b)}
    \cup {[segs |-> x, swapped |-> TRUE] : x \in Segments(b, a)}

\* the total length of the MATCH segments
RECURSIVE matchLenOf(_, _)
matchLenOf(segs, k) ==
    IF k > Len(segs) THEN 0
    ELSE (IF segs[k].type = DIFF_MATCH THEN segs[k].len ELSE 0) + matchLenOf(segs, k + 1)

-----------------------------------------------------------------------------
(* blockDiffInfo *)

RECURSIVE movedSectionFrom(_, _, _)
movedSectionFrom(moves, k, line) ==
    IF k > Len(moves) THEN 0
    ELSE IF line >= moves[k].off /\ line < moves[k].off + moves[k].len THEN moves[k].len
    ELSE movedSectionFrom(moves, k + 1, line)

\* a movedSection that finds no line in a moved span
movedSectionNone(bd, line) == 0

\* blockDiffInfo::movedSection: length of the first span of moves containing line, else 0
movedSection(bd, line) == movedSectionFrom(bd.moves, 1, line)

RECURSIVE getNextUnmovedFrom(_, _, _)
getNextUnmovedFrom(moves, k, line) ==
    IF k > Len(moves) THEN [found |-> FALSE, line |-> line]
    ELSE IF line >= moves[k].off /\ line < moves[k].off + moves[k].len
        THEN [found |-> TRUE, line |-> moves[k].off + moves[k].len]
    ELSE getNextUnmovedFrom(moves, k + 1, line)

\* a getNextUnmoved that reports no line as being in a moved section
getNextUnmovedNever(bd, line) == [found |-> FALSE, line |-> line]

\* blockDiffInfo::getNextUnmoved: [found, line] - the return value and the updated argument
getNextUnmoved(bd, line) == getNextUnmovedFrom(bd.moves, 1, line)

-----------------------------------------------------------------------------
(* Move detector *)

\* a MatchInfo no field of which has been set (lookupOff and matchOff are only
\* read once findBestMatch has set them together with matchDiff)
NoMatch == [lookupOff |-> 0, matchDiff |-> 0, matchOff |-> 0, matchLen |-> 0]

\* a findBestMatch that keeps the first of the runs of equal length
findBestMatchFirstWins(L1, L2, bds, lk, lookupOff) ==
    LET lookupDiff   == bds[lk]
        in1          == lookupDiff.type = DIFF_IN_1
        pLookupLines == IF in1 THEN L1 ELSE L2
        pMatchLines  == IF in1 THEN L2 ELSE L1
        matchType    == IF in1 THEN DIFF_IN_2 ELSE DIFF_IN_1
        eq(md, lo, mo) ==
            At(pLookupLines, lookupDiff.off + lo).hash = At(pMatchLines, md.off + mo).hash
        \* beginning of the matched run: the value of lookupStart when the loop exits
        RECURSIVE scanStart(_, _, _, _)
        scanStart(md, lookupStart, matchStart, matchLastUnmoved) ==
            IF /\ lookupStart >= 0
               /\ matchStart >= matchLastUnmoved
               /\ eq(md, lookupStart, matchStart)
               /\ movedSection(lookupDiff, lookupStart) = 0
            THEN scanStart(md, lookupStart - 1, matchStart - 1, matchLastUnmoved)
            ELSE lookupStart
        \* end of the matched run: the value of lookupEnd when the loop exits
        RECURSIVE scanEnd(_, _, _)
        scanEnd(md, lookupEnd, matchEnd) ==
            IF /\ lookupEnd < lookupDiff.len
               /\ matchEnd < md.len
               /\ eq(md, lookupEnd, matchEnd)
               /\ movedSection(lookupDiff, lookupEnd) = 0
               /\ movedSection(md, matchEnd) = 0
            THEN scanEnd(md, lookupEnd + 1, matchEnd + 1)
            ELSE lookupEnd
        \* the loop over matchOff in block k; acc = [mi, minMatchLen]
        RECURSIVE offLoop(_, _, _, _)
        offLoop(k, matchOff, matchLastUnmoved, acc) ==
            LET md == bds[k] IN
            IF matchOff >= md.len THEN acc
            ELSE IF ~eq(md, lookupOff, matchOff)
                THEN offLoop(k, matchOff + 1, matchLastUnmoved, acc)
            ELSE LET nu == getNextUnmoved(md, matchOff) IN
                IF nu.found
                THEN \* matchLastUnmoved = matchOff; --matchOff; continue
                     offLoop(k, nu.line, nu.line, acc)
                ELSE LET lookupStart == scanStart(md, lookupOff - 1, matchOff - 1,
                                                  matchLastUnmoved) + 1
                         matchStart  == matchOff - (lookupOff - lookupStart)
                         lookupEnd   == scanEnd(md, lookupOff + 1, matchOff + 1)
                         matchLen    == lookupEnd - lookupStart
                         acc2 ==
                            IF acc.mi.matchLen < matchLen
                            THEN [mi |-> [lookupOff |-> lookupStart, matchDiff |-> k,
                                          matchOff |-> matchStart, matchLen |-> matchLen],
                                  minMatchLen |-> matchLen]
                            ELSE acc
                     IN offLoop(k, matchOff + 1, matchLastUnmoved, acc2)
        \* the loop over the block diffs
        RECURSIVE blockLoop(_, _)
        blockLoop(k, acc) ==
            IF k > Len(bds) THEN acc.mi
            ELSE IF bds[k].type # matchType \/ bds[k].len < acc.minMatchLen
                THEN blockLoop(k + 1, acc)
            ELSE blockLoop(k + 1, offLoop(k, 0, 0, acc))
    IN blockLoop(1, [mi |-> NoMatch, minMatchLen |-> 1])

\* findBestMatch: the best single matching run, in the blocks of the other
\* file, that contains element lookupOff of block lk.  L1, L2 are the
\* normalized lines of doc1 and doc2.
findBestMatch(L1, L2, bds, lk, lookupOff) ==
    LET lookupDiff   == bds[lk]
        in1          == lookupDiff.type = DIFF_IN_1
        pLookupLines == IF in1 THEN L1 ELSE L2
        pMatchLines  == IF in1 THEN L2 ELSE L1
        matchType    == IF in1 THEN DIFF_IN_2 ELSE DIFF_IN_1
        eq(md, lo, mo) ==
            At(pLookupLines, lookupDiff.off + lo).hash = At(pMatchLines, md.off + mo).hash
        \* beginning of the matched run: the value of lookupStart when the loop exits
        RECURSIVE scanStart(_, _, _, _)
        scanStart(md, lookupStart, matchStart, matchLastUnmoved) ==
            IF /\ lookupStart >= 0
               /\ matchStart >= matchLastUnmoved
               /\ eq(md, lookupStart, matchStart)
               /\ movedSection(lookupDiff, lookupStart) = 0
            THEN scanStart(md, lookupStart - 1, matchStart - 1, matchLastUnmoved)
            ELSE lookupStart
        \* end of the matched run: the value of lookupEnd when the loop exits
        RECURSIVE scanEnd(_, _, _)
        scanEnd(md, lookupEnd, matchEnd) ==
            IF /\ lookupEnd < lookupDiff.len
               /\ matchEnd < md.len
               /\ eq(md, lookupEnd, matchEnd)
               /\ movedSection(lookupDiff, lookupEnd) = 0
               /\ movedSection(md, matchEnd) = 0
            THEN scanEnd(md, lookupEnd + 1, matchEnd + 1)
            ELSE lookupEnd
        \* the loop over matchOff in block k; acc = [mi, minMatchLen]
        RECURSIVE offLoop(_, _, _, _)
        offLoop(k, matchOff, matchLastUnmoved, acc) ==
            LET md == bds[k] IN
            IF matchOff >= md.len THEN acc
            ELSE IF ~eq(md, lookupOff, matchOff)
                THEN offLoop(k, matchOff + 1, matchLastUnmoved, acc)
            ELSE LET nu == getNextUnmoved(md, matchOff) IN
                IF nu.found
                THEN \* matchLastUnmoved = matchOff; --matchOff; continue
                     offLoop(k, nu.line, nu.line, acc)
                ELSE LET lookupStart == scanStart(md, lookupOff - 1, matchOff - 1,
                                                  matchLastUnmoved) + 1
                         matchStart  == matchOff - (lookupOff - lookupStart)
                         lookupEnd   == scanEnd(md, lookupOff + 1, matchOff + 1)
                         matchLen    == lookupEnd - lookupStart
                         acc2 ==
                            IF acc.mi.matchLen < matchLen
                            THEN [mi |-> [lookupOff |-> lookupStart, matchDiff |-> k,
                                          matchOff |-> matchStart, matchLen |-> matchLen],
                                  minMatchLen |-> matchLen]
                            ELSE IF acc.mi.matchLen = matchLen
                            THEN [acc EXCEPT !.mi.matchDiff = 0]
                            ELSE acc
                     IN offLoop(k, matchOff + 1, matchLastUnmoved, acc2)
        \* the loop over the block diffs
        RECURSIVE blockLoop(_, _)
        blockLoop(k, acc) ==
            IF k > Len(bds) THEN acc.mi
            ELSE IF bds[k].type # matchType \/ bds[k].len < acc.minMatchLen
                THEN blockLoop(k + 1, acc)
            ELSE blockLoop(k + 1, offLoop(k, 0, 0, acc))
    IN blockLoop(1, [mi |-> NoMatch, minMatchLen |-> 1])

\* the candidate runs findBestMatch comes across for element lookupOff of block
\* lk, in the order of its loops over the blocks and over matchOff: the runs
\* [lookupOff, matchDiff, matchOff, matchLen] it compares with the best seen
candidateRuns(L1, L2, bds, lk, lookupOff) ==
    LET lookupDiff   == bds[lk]
        in1          == lookupDiff.type = DIFF_IN_1
        pLookupLines == IF in1 THEN L1 ELSE L2
        pMatchLines  == IF in1 THEN L2 ELSE L1
        matchType    == IF in1 THEN DIFF_IN_2 ELSE DIFF_IN_1
        eq(md, lo, mo) ==
            At(pLookupLines, lookupDiff.off + lo).hash = At(pMatchLines, md.off + mo).hash
        RECURSIVE scanStart(_, _, _, _)
        scanStart(md, lookupStart, matchStart, matchLastUnmoved) ==
            IF /\ lookupStart >= 0
               /\ matchStart >= matchLastUnmoved
               /\ eq(md, lookupStart, matchStart)
               /\ movedSection(lookupDiff, lookupStart) = 0
            THEN scanStart(md, lookupStart - 1, matchStart - 1, matchLastUnmoved)
            ELSE lookupStart
        RECURSIVE scanEnd(_, _, _)
        scanEnd(md, lookupEnd, matchEnd) ==
            IF /\ lookupEnd < lookupDiff.len
               /\ matchEnd < md.len
               /\ eq(md, lookupEnd, matchEnd)
               /\ movedSection(lookupDiff, lookupEnd) = 0
               /\ movedSection(md, matchEnd) = 0
            THEN scanEnd(md, lookupEnd + 1, matchEnd + 1)
            ELSE lookupEnd
        RECURSIVE offLoop(_, _, _)
        offLoop(k, matchOff, matchLastUnmoved) ==
            LET md == bds[k] IN
            IF matchOff >= md.len THEN <<>>
            ELSE IF ~eq(md, lookupOff, matchOff)
                THEN offLoop(k, matchOff + 1, matchLastUnmoved)
            ELSE LET nu == getNextUnmoved(md, matchOff) IN
                IF nu.found
                THEN offLoop(k, nu.line, nu.line)
                ELSE LET lookupStart == scanStart(md, lookupOff - 1, matchOff - 1,
                                                  matchLastUnmoved) + 1
                         lookupEnd   == scanEnd(md, lookupOff + 1, matchOff + 1)
                     IN <<[lookupOff |-> lookupStart, matchDiff |-> k,
                           matchOff |-> matchOff - (lookupOff - lookupStart),
                           matchLen |-> lookupEnd - lookupStart]>>
                        \o offLoop(k, matchOff + 1, matchLastUnmoved)
        RECURSIVE blockLoop(_)
        blockLoop(k) ==
            IF k > Len(bds) THEN <<>>
            ELSE IF bds[k].type # matchType THEN blockLoop(k + 1)
            ELSE offLoop(k, 0, 0) \o blockLoop(k + 1)
    IN blockLoop(1)

\* The state of the move detector: st = [L1, L2, blockDiffs, pc, fm, rs].
\*   fm = [repeat, di, ei, mi, ret, commits, pairs]: di is the position of the
\*        range-for over blockDiffs, ei is lookupEi, mi the MatchInfo of findMoves,
\*        ret what the last resolveMatch call returned; commits counts the committed
\*        matches and pairs records them: the pairs <<i, j>> of a position i of
\*        doc1.lines and a position j of doc2.lines committed as the same moved line;
\*   rs = [lookupDiff, lookupOff, mi, depth]: the arguments of the running
\*        resolveMatch call and its depth in the chain of calls.

\* the frame of no call
NoFrame == [lookupDiff |-> 0, lookupOff |-> 0, mi |-> NoMatch, depth |-> 0]

\* findMoves() is entered
findMovesEnter(st) ==
    [st EXCEPT !.pc = "findMoves",
               !.fm = [repeat |-> FALSE, di |-> 1, ei |-> 0, mi |-> NoMatch, ret |-> FALSE,
                       commits |-> 0, pairs |-> {}],
               !.rs = NoFrame]

\* resolveMatch has returned ret to findMoves; recursed tells whether the call
\* made in findMoves went into the recursion (which sets mi.matchLen = 0)
findMovesResume(st, bds, ret, recursed, newPairs) ==
    LET mi == IF recursed THEN [st.fm.mi EXCEPT !.matchLen = 0] ELSE st.fm.mi
        ei == IF ret
                THEN (IF mi.matchLen # 0 THEN mi.lookupOff + mi.matchLen - 1
                                         ELSE st.fm.ei - 1)
                ELSE st.fm.ei
    IN [st EXCEPT !.pc = "findMoves",
                  !.blockDiffs = bds,
                  !.fm = [@ EXCEPT !.repeat = @ \/ ret, !.mi = mi, !.ei = ei + 1,
                                   !.ret = ret,
                                   !.commits = IF ret THEN @ + 1 ELSE @,
                                   !.pairs = @ \cup newPairs],
                  !.rs = NoFrame]

\* one call of resolveMatch (one link of the chain of recursive calls)
resolveMatch(st) ==
    LET lookupMi == st.rs.mi
        bds      == st.blockDiffs
        recursed == st.rs.depth > 0
    IN  IF lookupMi.matchDiff = 0
        THEN findMovesResume(st, bds, FALSE, recursed, {})
        ELSE LET lookupOff == lookupMi.matchOff + (st.rs.lookupOff - lookupMi.lookupOff)
                 reverseMi == findBestMatch(st.L1, st.L2, bds, lookupMi.matchDiff, lookupOff)
             IN  IF reverseMi.matchDiff = st.rs.lookupDiff
                 THEN findMovesResume(st,
                        [bds EXCEPT
                           ![st.rs.lookupDiff].moves =
                               Append(@, section_t(lookupMi.lookupOff, lookupMi.matchLen)),
                           ![lookupMi.matchDiff].moves =
                               Append(@, section_t(lookupMi.matchOff, lookupMi.matchLen))],
                        TRUE, recursed,
                        {IF bds[st.rs.lookupDiff].type = DIFF_IN_1
                            THEN <<bds[st.rs.lookupDiff].off + lookupMi.lookupOff + t,
                                   bds[lookupMi.matchDiff].off + lookupMi.matchOff + t>>
                            ELSE <<bds[lookupMi.matchDiff].off + lookupMi.matchOff + t,
                                   bds[st.rs.lookupDiff].off + lookupMi.lookupOff + t>>
                         : t \in 0..(lookupMi.matchLen - 1)})
                 ELSE IF reverseMi.matchDiff # 0
                 THEN [st EXCEPT !.rs = [lookupDiff |-> lookupMi.matchDiff,
                                         lookupOff |-> lookupOff,
                                         mi |-> reverseMi,
                                         depth |-> st.rs.depth + 1]]
                 ELSE findMovesResume(st, bds, FALSE, recursed, {})

\* one step of the loops of findMoves
findMoves(st) ==
    LET bds == st.blockDiffs
        di  == st.fm.di
        ei  == st.fm.ei
    IN  IF di > Len(bds)
        THEN IF st.fm.repeat
             THEN [st EXCEPT !.fm = [@ EXCEPT !.repeat = FALSE, !.di = 1, !.ei = 0]]
             ELSE [st EXCEPT !.pc = "findMovesDone"]
        ELSE IF bds[di].type # DIFF_IN_1 \/ ei >= bds[di].len
        THEN [st EXCEPT !.fm = [@ EXCEPT !.di = di + 1, !.ei = 0]]
        ELSE LET nu == getNextUnmoved(bds[di], ei) IN
             IF nu.found
             THEN \* --lookupEi; continue
                  [st EXCEPT !.fm = [@ EXCEPT !.ei = nu.line]]
             ELSE LET mi == findBestMatch(st.L1, st.L2, bds, di, ei) IN
                  [st EXCEPT !.pc = "resolveMatch",
                             !.fm = [@ EXCEPT !.mi = mi],
                             !.rs = [lookupDiff |-> di, lookupOff |-> ei,
                                     mi |-> mi, depth |-> 0]]

\* one step of the move detector
findMovesStep(st) ==
    IF st.pc = "resolveMatch" THEN resolveMatch(st) ELSE findMoves(st)

\* the move detector run to completion
RECURSIVE findMovesRun(_)
findMovesRun(st) ==
    IF st.pc \in {"findMoves", "resolveMatch"} THEN findMovesRun(findMovesStep(st)) ELSE st

-----------------------------------------------------------------------------
(* Host text provider (Scintilla) and line extractor *)

\* SCI_GETLENGTH: the bytes of the document, one terminator byte between lines
RECURSIVE SumLen(_, _)
SumLen(d, k) == IF k > Len(d) THEN 0 ELSE Len(d[k]) + SumLen(d, k + 1)

SCI_GETLENGTH(d) == SumLen(d, 1) + (Len(d) - 1)

SCI_GETLINECOUNT(d) == Len(d)

\* the bytes of line lineNum between getLineStart and getLineEnd
getLineText(d, lineNum) == At(d, lineNum)

UpperCase ==
    <<"A", "B", "C", "D", "E", "F", "G", "H", "I", "J", "K", "L", "M",
      "N", "O", "P", "Q", "R", "S", "T", "U", "V", "W", "X", "Y", "Z">>

LowerCase ==
    <<"a", "b", "c", "d", "e", "f", "g", "h", "i", "j", "k", "l", "m",
      "n", "o", "p", "q", "r", "s", "t", "u", "v", "w", "x", "y", "z">>

Digits == {"0", "1", "2", "3", "4", "5", "6", "7", "8", "9"}

\* toLowerCase on one byte: folds ASCII A-Z to a-z
toLowerCase(c) ==
    IF \E k \in DOMAIN UpperCase : UpperCase[k] = c
    THEN LowerCase[CHOOSE k \in DOMAIN UpperCase : UpperCase[k] = c]
    ELSE c

\* IsCharAlphaNumericA on an ASCII byte
IsCharAlphaNumericA(c) ==
    \/ c \in Digits
    \/ \E k \in DOMAIN UpperCase : UpperCase[k] = c \/ LowerCase[k] = c

monitorCancelEveryXLine == 500

\* a lineHash that folds the spaces and tabs into the hash whatever the options
RECURSIVE lineHashKeepSpaces(_, _, _, _)
lineHashKeepSpaces(line, i, opts, hval) ==
    IF i > Len(line) THEN hval
    ELSE lineHashKeepSpaces(line, i + 1, opts,
            Hash(hval, IF opts.ignoreCase THEN toLowerCase(line[i]) ELSE line[i]))

\* the hash of one raw line under the options (the inner loop of getLines)
RECURSIVE lineHash(_, _, _, _)
lineHash(line, i, opts, hval) ==
    IF i > Len(line) THEN hval
    ELSE LET c == IF opts.ignoreCase THEN toLowerCase(line[i]) ELSE line[i] IN
         IF opts.ignoreSpaces /\ (c = " " \/ c = "\t")
         THEN lineHash(line, i + 1, opts, hval)
         ELSE lineHash(line, i + 1, opts, Hash(hval, c))

\* the progress object: info tells whether compareViews is given a progress
\* text, open whether ProgressDlg::Get() gives a dialog, cancelled whether the
\* user has cancelled it, reported whether a poll has answered false
ProgressInit(info) == [info |-> info, open |-> FALSE, cancelled |-> FALSE, reported |-> FALSE]

NoProgress == ProgressInit(FALSE)

\* progress && !progress->Advance(), progress && !progress->NextPhase():
\* [ok, progress] - ok is FALSE when the run has to stop
Poll(p) ==
    [ok |-> ~(p.open /\ p.cancelled),
     progress |-> IF p.open /\ p.cancelled THEN [p EXCEPT !.reported = TRUE] ELSE p]

\* the loop of getLines from lineNum on; advance is what the check of
\* progress->Advance() lets through
RECURSIVE getLinesFrom(_, _, _, _, _, _)
getLinesFrom(d, section, opts, advance, lineNum, lines) ==
    IF lineNum >= section.len THEN lines
    ELSE IF lineNum % monitorCancelEveryXLine = 0 /\ ~advance THEN <<>>
    ELSE LET newLine == [line |-> lineNum + section.off,
                         hash |-> lineHash(getLineText(d, lineNum + section.off), 1,
                                           opts, cHashSeed)]
         IN getLinesFrom(d, section, opts, advance, lineNum + 1,
                IF ~opts.ignoreEmptyLines \/ newLine.hash # cHashSeed
                THEN Append(lines, newLine) ELSE lines)

\* getLines: [doc, progress] - doc with its lines (and its section length) set
\* from document d, and the progress object after the polls of the loop
getLines(doc, d, opts, p) ==
    IF SCI_GETLENGTH(d) = 0 THEN [doc |-> [doc EXCEPT !.lines = <<>>], progress |-> p]
    ELSE LET linesCount == SCI_GETLINECOUNT(d)
             len == IF doc.section.len <= 0 \/ doc.section.off + doc.section.len > linesCount
                    THEN linesCount - doc.section.off
                    ELSE doc.section.len
             section == section_t(doc.section.off, len)
         IN [doc |-> [doc EXCEPT !.section = section,
                                 !.lines = getLinesFrom(d, section, opts, Poll(p).ok, 0, <<>>)],
             progress |-> IF len > 0 THEN Poll(p).progress ELSE p]

\* getLineStart: the byte position of the first byte of a line
getLineStart(d, lineNum) == SumLen(SubSeq(d, 1, lineNum), 1) + lineNum

\* getLineEnd: the byte position after the last byte of a line, terminator excluded
getLineEnd(d, lineNum) == getLineStart(d, lineNum) + Len(At(d, lineNum))

\* the bytes of the document, a line feed after every line but the last
RECURSIVE Bytes(_, _)
Bytes(d, k) ==
    IF k > Len(d) THEN <<>>
    ELSE d[k] \o (IF k < Len(d) THEN <<"\n">> ELSE <<>>) \o Bytes(d, k + 1)

\* getText: the bytes of the document from position start up to position end
getText(d, start, end) == SubSeq(Bytes(d, 1), start + 1, end)

-----------------------------------------------------------------------------
(* Characters and words of a line *)

SPACECHAR == "SPACECHAR"

ALPHANUMCHAR == "ALPHANUMCHAR"

OTHERCHAR == "OTHERCHAR"

getCharType(letter) ==
    IF letter = " " \/ letter = "\t" THEN SPACECHAR
    ELSE IF IsCharAlphaNumericA(letter) \/ letter = "_" THEN ALPHANUMCHAR
    ELSE OTHERCHAR

\* the bytes of a text with the case folded when the options ask for it
foldCase(line, opts) ==
    [i \in 1..Len(line) |-> IF opts.ignoreCase THEN toLowerCase(line[i]) ELSE line[i]]

\* the Chars [ch, pos] of line kept from position i on
RECURSIVE sectionCharsFrom(_, _, _)
sectionCharsFrom(line, i, opts) ==
    IF i >= Len(line) THEN <<>>
    ELSE (IF ~opts.ignoreSpaces \/ getCharType(At(line, i)) # SPACECHAR
          THEN <<[ch |-> At(line, i), pos |-> i]>> ELSE <<>>)
         \o sectionCharsFrom(line, i + 1, opts)

\* getSectionChars: the Chars of the bytes from secStart to secEnd, pos counted
\* from secStart
getSectionChars(d, secStart, secEnd, opts) ==
    IF secEnd - secStart # 0
    THEN sectionCharsFrom(foldCase(getText(d, secStart, secEnd), opts), 0, opts)
    ELSE <<>>

\* getChars: the Chars of linesCount lines of doc.lines from lineOffset on
getChars(doc, d, lineOffset, linesCount, opts) ==
    [lineNum \in 1..linesCount |->
        LET docLineNum   == At(doc.lines, lineNum - 1 + lineOffset).line
            docLineStart == getLineStart(d, docLineNum)
            docLineEnd   == getLineEnd(d, docLineNum)
        IN IF docLineEnd - docLineStart # 0
           THEN getSectionChars(d, docLineStart, docLineEnd, opts)
           ELSE <<>>]

\* the loop of getLineWords from byte i on: word is the Word being built, of
\* type currentWordType
RECURSIVE lineWordsFrom(_, _, _, _, _, _)
lineWordsFrom(line, i, opts, word, currentWordType, words) ==
    LET keep == ~opts.ignoreSpaces \/ currentWordType # SPACECHAR IN
    IF i >= Len(line) THEN (IF keep THEN Append(words, word) ELSE words)
    ELSE IF getCharType(At(line, i)) = currentWordType
        THEN lineWordsFrom(line, i + 1, opts,
                           [word EXCEPT !.len = @ + 1, !.hash = Hash(@, At(line, i))],
                           currentWordType, words)
    ELSE lineWordsFrom(line, i + 1, opts,
                       [pos |-> i, len |-> 1, hash |-> Hash(cHashSeed, At(line, i))],
                       getCharType(At(line, i)),
                       IF keep THEN Append(words, word) ELSE words)

\* getLineWords: the Words [pos, len, hash] of a line of the document
getLineWords(d, lineNum, opts) ==
    LET docLineStart == getLineStart(d, lineNum)
        docLineEnd   == getLineEnd(d, lineNum)
        line         == foldCase(getText(d, docLineStart, docLineEnd), opts)
    IN IF docLineEnd - docLineStart # 0
       THEN lineWordsFrom(line, 1, opts,
                          [pos |-> 0, len |-> 1, hash |-> Hash(cHashSeed, line[1])],
                          getCharType(line[1]), <<>>)
       ELSE <<>>

-----------------------------------------------------------------------------
(* Uniqueness index *)

\* findUniqueLines: the two docs with their nonUniqueLines sets filled
findUniqueLines(d1, d2) ==
    LET h1 == {d1.lines[k].hash : k \in 1..Len(d1.lines)}
        h2 == {d2.lines[k].hash : k \in 1..Len(d2.lines)}
    IN <<[d1 EXCEPT !.nonUniqueLines =
                @ \cup {d1.lines[k].line : k \in {x \in 1..Len(d1.lines) : d1.lines[x].hash \in h2}}],
         [d2 EXCEPT !.nonUniqueLines =
                @ \cup {d2.lines[k].line : k \in {x \in 1..Len(d2.lines) : d2.lines[x].hash \in h1}}]>>

-----------------------------------------------------------------------------
(* Marker masks and results *)

MARKER_MASK_ADDED == "ADDED"

MARKER_MASK_REMOVED == "REMOVED"

MARKER_MASK_ADDED_LOCAL == "ADDED_LOCAL"

MARKER_MASK_REMOVED_LOCAL == "REMOVED_LOCAL"

MARKER_MASK_CHANGED == "CHANGED"

MARKER_MASK_CHANGED_LOCAL == "CHANGED_LOCAL"

MARKER_MASK_MOVED_LINE == "MOVED_LINE"

MARKER_MASK_MOVED_BEGIN == "MOVED_BEGIN"

MARKER_MASK_MOVED_MID == "MOVED_MID"

MARKER_MASK_MOVED_END == "MOVED_END"

COMPARE_ERROR == "COMPARE_ERROR"

COMPARE_CANCELLED == "COMPARE_CANCELLED"

COMPARE_MATCH == "COMPARE_MATCH"

COMPARE_MISMATCH == "COMPARE_MISMATCH"

-----------------------------------------------------------------------------
(* runCompare up to the move detector *)

\* a default-constructed DocCmpInfo for a view
DocCmpInfo(view) ==
    [view |-> view, section |-> section_t(0, 0), blockDiffMask |-> "",
     lines |-> <<>>, nonUniqueLines |-> {}]

\* the DocCmpInfo of a view as runCompare and runFindUnique set it up before getLines
docSetup(view, opts) ==
    [DocCmpInfo(view) EXCEPT
        !.section = IF opts.selectionCompare
                    THEN section_t(opts.selections[view][1],
                                   opts.selections[view][2] - opts.selections[view][1] + 1)
                    ELSE @,
        !.blockDiffMask = IF (opts.oldFileViewId = MAIN_VIEW) = (view = MAIN_VIEW)
                          THEN MARKER_MASK_REMOVED ELSE MARKER_MASK_ADDED]

\* a diffStage without the early return of COMPARE_MATCH
diffStageNoMatchReturn(d1, d2, diffRes, opts) ==
    LET segs == diffRes.segs
        u == findUniqueLines(IF diffRes.swapped THEN d2 ELSE d1,
                             IF diffRes.swapped THEN d1 ELSE d2)
    IN [pc |-> IF opts.detectMoves THEN "findMoves" ELSE "findMovesDone",
        result |-> COMPARE_ERROR,
        doc1 |-> u[1], doc2 |-> u[2], blockDiffs |-> segs]

\* runCompare from the result diffRes of DiffCalc to the move detector.  Gives the state the run is
\* in next: [pc, result, doc1, doc2, blockDiffs].
diffStage(d1, d2, diffRes, opts) ==
    LET segs == diffRes.segs
        s1 == IF diffRes.swapped THEN d2 ELSE d1
        s2 == IF diffRes.swapped THEN d1 ELSE d2
    IN  IF segs = <<>> \/ (Len(segs) = 1 /\ segs[1].type = DIFF_MATCH)
        THEN [pc |-> "return", result |-> COMPARE_MATCH,
              doc1 |-> s1, doc2 |-> s2, blockDiffs |-> segs]
        ELSE LET u == findUniqueLines(s1, s2) IN
             [pc |-> IF opts.detectMoves THEN "findMoves" ELSE "findMovesDone",
              result |-> COMPARE_ERROR,
              doc1 |-> u[1], doc2 |-> u[2], blockDiffs |-> segs]

\* the state of the move detector in the current state
MoveState ==
    [L1 |-> doc1.lines, L2 |-> doc2.lines, blockDiffs |-> blockDiffs,
     pc |-> pc, fm |-> fm, rs |-> rs]

\* findMoves: one step of its loops
FindMovesLoop ==
    /\ pc = "findMoves"
    /\ \E st \in {findMoves(MoveState)} :
        /\ pc' = st.pc
        /\ fm' = st.fm
        /\ rs' = st.rs
        /\ blockDiffs' = st.blockDiffs
    /\ UNCHANGED <<options, text, progress, doc1, doc2, loopI, alignLines,
                   uniqueLines, alignmentInfo, sink, result>>

\* resolveMatch: one call
ResolveMatchCall ==
    /\ pc = "resolveMatch"
    /\ \E st \in {resolveMatch(MoveState)} :
        /\ pc' = st.pc
        /\ fm' = st.fm
        /\ rs' = st.rs
        /\ blockDiffs' = st.blockDiffs
    /\ UNCHANGED <<options, text, progress, doc1, doc2, loopI, alignLines,
                   uniqueLines, alignmentInfo, sink, result>>

-----------------------------------------------------------------------------
(* Block re-aligner: compareBlocks *)

\* what a read of an int outside the bounds of a vector may give
IndeterminateInts == {-2, -1, 0, 1}

RECURSIVE Gcd(_, _)
Gcd(a, b) == IF b = 0 THEN a ELSE Gcd(b, a % b)

RECURSIVE LcmOf(_)
LcmOf(S) ==
    IF S = {} THEN 1
    ELSE LET x == CHOOSE y \in S : TRUE
             r == LcmOf(S \ {x})
         IN (x * r) \div Gcd(x, r)

\* the ch of a sequence of Chars, the hash of a sequence of Words
Chs(chars) == [k \in 1..Len(chars) |-> chars[k].ch]

WordHashes(words) == [k \in 1..Len(words) |-> words[k].hash]

\* the lines of a block with a non-empty chunk, moved or not
RECURSIVE candidateLinesMoved(_, _, _)
candidateLinesMoved(bd, chunk, line) ==
    IF line >= Len(chunk) THEN <<>>
    ELSE IF At(chunk, line) = <<>> THEN candidateLinesMoved(bd, chunk, line + 1)
    ELSE <<line>> \o candidateLinesMoved(bd, chunk, line + 1)

\* the lines the loops of compareBlocks consider, from line on: those with a
\* non-empty chunk that getNextUnmoved does not skip
RECURSIVE candidateLines(_, _, _)
candidateLines(bd, chunk, line) ==
    IF line >= Len(chunk) THEN <<>>
    ELSE IF At(chunk, line) = <<>> THEN candidateLines(bd, chunk, line + 1)
    ELSE IF getNextUnmoved(bd, line).found
        THEN candidateLines(bd, chunk, getNextUnmoved(bd, line).line)
    ELSE <<line>> \o candidateLines(bd, chunk, line + 1)

\* conv_key::operator<
convKeyLess(a, b) ==
    \/ a.convergence > b.convergence
    \/ /\ a.convergence = b.convergence
       /\ \/ a.line1 < b.line1
          \/ a.line1 = b.line1 /\ a.line2 < b.line2

RECURSIVE sortedKeys(_)
sortedKeys(S) ==
    IF S = {} THEN <<>>
    ELSE LET m == CHOOSE x \in S : \A y \in S \ {x} : convKeyLess(x, y)
         IN <<m>> \o sortedKeys(S \ {m})

\* orderedLinesConvergence: the conv_keys of the line pairs that pass the size
\* filter and reach the threshold, in the order of the set.  The MATCH segments
\* of a DiffCalc result add up to the length of the longest common subsequence;
\* the float lineConvergence * 100 / maxSize is kept exact, as an integer over
\* the common denominator of the pairs.
orderedLinesConvergence(bd1, bd2, chunk1, chunk2, opts) ==
    LET c1 == candidateLines(bd1, chunk1, 0)
        c2 == candidateLines(bd2, chunk2, 0)
        minSize(q) == Min(Len(At(chunk1, q[1])), Len(At(chunk2, q[2])))
        maxSize(q) == Max(Len(At(chunk1, q[1])), Len(At(chunk2, q[2])))
        lcs(q) == LcsLen(Chs(At(chunk1, q[1])), Chs(At(chunk2, q[2])), 1, 1)
        pairs == {q \in {<<c1[x], c2[y]>> : x \in DOMAIN c1, y \in DOMAIN c2} :
                    /\ (minSize(q) * 100) \div maxSize(q) >= opts.matchPercentThreshold
                    /\ lcs(q) * 100 >= opts.matchPercentThreshold * maxSize(q)}
        den == LcmOf({maxSize(q) : q \in pairs})
    IN sortedKeys({[convergence |-> lcs(q) * 100 * (den \div maxSize(q)),
                    line1 |-> q[1], line2 |-> q[2]] : q \in pairs})

\* the inner loop of the mapping search from the k-th key on
RECURSIVE lineMappingsFrom(_, _, _, _, _, _, _)
lineMappingsFrom(ocs, k, linesCount1, linesCount2, cnt1, cnt2, lm) ==
    IF k > Len(ocs) THEN lm
    ELSE IF \E x \in lm : x.line1 = ocs[k].line1 \/ x.line2 = ocs[k].line2
        THEN lineMappingsFrom(ocs, k + 1, linesCount1, linesCount2, cnt1, cnt2, lm)
    ELSE IF cnt1 + 1 = linesCount1 \/ cnt2 + 1 = linesCount2 THEN lm \cup {ocs[k]}
    ELSE lineMappingsFrom(ocs, k + 1, linesCount1, linesCount2, cnt1 + 1, cnt2 + 1,
                          lm \cup {ocs[k]})

\* a lineMappings map read against the order of its keys
RECURSIVE byLine1Reversed(_)
byLine1Reversed(lm) ==
    IF lm = {} THEN <<>>
    ELSE LET m == CHOOSE x \in lm : \A y \in lm : x.line1 >= y.line1
         IN <<m>> \o byLine1Reversed(lm \ {m})

\* a lineMappings map in the order of its keys (line1)
RECURSIVE byLine1(_)
byLine1(lm) ==
    IF lm = {} THEN <<>>
    ELSE LET m == CHOOSE x \in lm : \A y \in lm : x.line1 <= y.line1
         IN <<m>> \o byLine1(lm \ {m})

RECURSIVE blockConvergence(_, _, _)
blockConvergence(lms, k, lastLine2) ==
    IF k > Len(lms) THEN 0
    ELSE IF lms[k].line2 > lastLine2
        THEN lms[k].convergence + blockConvergence(lms, k + 1, lms[k].line2)
    ELSE blockConvergence(lms, k + 1, lastLine2)

\* the outer loop of the mapping search: the mappings started from the k-th key
\* replace the best ones when their convergence is greater
RECURSIVE bestLineMappings(_, _, _, _, _, _)
bestLineMappings(ocs, k, linesCount1, linesCount2, bestBlockConvergence, best) ==
    IF k > Len(ocs) THEN best
    ELSE LET lms == byLine1(lineMappingsFrom(ocs, k, linesCount1, linesCount2, 0, 0, {}))
             cur == blockConvergence(lms, 1, -1)
         IN IF bestBlockConvergence < cur
            THEN bestLineMappings(ocs, k + 1, linesCount1, linesCount2, cur, lms)
            ELSE bestLineMappings(ocs, k + 1, linesCount1, linesCount2,
                                  bestBlockConvergence, best)

-----------------------------------------------------------------------------
(* Block re-aligner: compareLines *)

\* the bytes from the first to the last of the words of a word-level segment
wordChange(words, ld) ==
    section_t(At(words, ld.off).pos,
              At(words, ld.off + ld.len - 1).pos + At(words, ld.off + ld.len - 1).len
                - At(words, ld.off).pos)

RECURSIVE wordsLen(_, _, _)
wordsLen(words, off, len) ==
    IF len = 0 THEN 0 ELSE At(words, off).len + wordsLen(words, off + 1, len - 1)

\* .pos of the k-th Char of a section; outside the section the read is undefined
PosAt(sec, k) == IF k >= 0 /\ k < Len(sec) THEN {At(sec, k).pos} ELSE IndeterminateInts

\* the values startMatch may have after "while (sec1[startMatch] == sec2[startMatch])":
\* the loop has no bound, a comparison that reads past the end of a section
\* may give either answer (followed here up to the end of the longer section)
RECURSIVE startMatches(_, _, _)
startMatches(pSec1, pSec2, k) ==
    IF k < Len(pSec1) /\ k < Len(pSec2)
    THEN (IF At(pSec1, k).ch = At(pSec2, k).ch THEN startMatches(pSec1, pSec2, k + 1) ELSE {k})
    ELSE {k} \cup (IF k < Max(Len(pSec1), Len(pSec2))
                   THEN startMatches(pSec1, pSec2, k + 1) ELSE {})

\* endMatch after the backward loop (sec1 is not read before its first Char as
\* long as the threshold is at most 100)
RECURSIVE endMatchFrom(_, _, _, _)
endMatchFrom(pSec1, pSec2, startMatch, endMatch) ==
    IF /\ Len(pSec2) - endMatch - 1 > startMatch
       /\ Len(pSec1) - endMatch - 1 >= 0
       /\ At(pSec1, Len(pSec1) - endMatch - 1).ch = At(pSec2, Len(pSec2) - endMatch - 1).ch
    THEN endMatchFrom(pSec1, pSec2, startMatch, endMatch + 1)
    ELSE endMatch

\* the changes of the char-level segments of one type with the last Char of
\* every segment left out
RECURSIVE sectionChangesShort(_, _, _, _, _)
sectionChangesShort(segs, k, type, sec, off) ==
    IF k > Len(segs) THEN <<>>
    ELSE (IF segs[k].type = type
          THEN <<section_t(At(sec, segs[k].off).pos + off,
                           At(sec, segs[k].off + segs[k].len - 1).pos + off
                             - (At(sec, segs[k].off).pos + off))>>
          ELSE <<>>)
         \o sectionChangesShort(segs, k + 1, type, sec, off)

\* the changes of the char-level segments of one type, on the section sec at off
RECURSIVE sectionChanges(_, _, _, _, _)
sectionChanges(segs, k, type, sec, off) ==
    IF k > Len(segs) THEN <<>>
    ELSE (IF segs[k].type = type
          THEN <<section_t(At(sec, segs[k].off).pos + off,
                           At(sec, segs[k].off + segs[k].len - 1).pos + off + 1
                             - (At(sec, segs[k].off).pos + off))>>
          ELSE <<>>)
         \o sectionChanges(segs, k + 1, type, sec, off)

NoSectionMatch == [kind |-> "none", ch1 |-> <<>>, ch2 |-> <<>>, matched |-> 0]

\* the char-level refinement of a mismatched word pair for one result diffRes of
\* DiffCalc<Char>(sec1, sec2): the set of [kind, ch1, ch2, matched] - the changes
\* added to the entry of pBlockDiff1 and of pBlockDiff2 and the matched length
\* added to totalLineMatchLen; kind is "none" when the code falls through
charOutcomes(sec1, sec2, off1, end1, off2, end2, diffRes, opts) ==
    LET sw    == diffRes.swapped
        pSec1 == IF sw THEN sec2 ELSE sec1
        pSec2 == IF sw THEN sec1 ELSE sec2
        o1    == IF sw THEN off2 ELSE off1
        o2    == IF sw THEN off1 ELSE off2
        e1    == IF sw THEN end2 ELSE end1
        e2    == IF sw THEN end1 ELSE end2
        matchLen == matchLenOf(diffRes.segs, 1)
        matchSections == Cardinality({k \in DOMAIN diffRes.segs :
                                         diffRes.segs[k].type = DIFF_MATCH})
        out(x1, x2, m) == [kind |-> "matched",
                           ch1 |-> IF sw THEN x2 ELSE x1,
                           ch2 |-> IF sw THEN x1 ELSE x2,
                           matched |-> m]
        change(o, e, startMatch, endMatch, p, q) ==
            LET off == o + (IF startMatch > 0 THEN p + 1 ELSE 0)
                len == (IF endMatch > 0 THEN q + 1 + o ELSE e) - off
            IN IF len > 0 THEN <<section_t(off, len)>> ELSE <<>>
    IN  IF matchSections = 0 THEN {NoSectionMatch}
        ELSE IF (matchLen * 100) \div Len(pSec1) >= opts.matchPercentThreshold
        THEN {out(sectionChanges(diffRes.segs, 1, DIFF_IN_1, pSec1, o1),
                  sectionChanges(diffRes.segs, 1, DIFF_IN_2, pSec2, o2), matchLen)}
        ELSE UNION {
              LET endMatch == endMatchFrom(pSec1, pSec2, startMatch, 0) IN
              IF startMatch = 0 /\ endMatch = 0 THEN {NoSectionMatch}
              ELSE {out(change(o1, e1, startMatch, endMatch, p1, q1),
                        change(o2, e2, startMatch, endMatch, p2, q2),
                        startMatch + endMatch) :
                      p1 \in PosAt(pSec1, startMatch - 1), p2 \in PosAt(pSec2, startMatch - 1),
                      q1 \in PosAt(pSec1, Len(pSec1) - endMatch - 1),
                      q2 \in PosAt(pSec2, Len(pSec2) - endMatch - 1)}
              : startMatch \in startMatches(pSec1, pSec2, 0)}

\* the loop of compareLines over the word-level segments lineDiffs, from the
\* i-th on.  c holds what the loop reads: the documents d1, d2 and the words
\* pLine1, pLine2 of the two lines as pDoc1 / pDoc2 and pLine1 / pLine2 point to
\* them, lineOff1, lineOff2, lineDiffs and the options; st = [ch1, ch2, total]
\* holds the changes of the last changedLines entry of pBlockDiff1 and of
\* pBlockDiff2 and totalLineMatchLen.  Gives the states the loop may end in.
RECURSIVE wordLoop(_, _, _)
wordLoop(c, i, st) ==
    IF i >= Len(c.lineDiffs) THEN {st}
    ELSE LET ld == At(c.lineDiffs, i) IN
    IF ld.type = DIFF_MATCH
    THEN wordLoop(c, i + 1, [st EXCEPT !.total = @ + wordsLen(c.pLine1, ld.off, ld.len)])
    ELSE IF ld.type = DIFF_IN_2
    THEN wordLoop(c, i + 1, [st EXCEPT !.ch2 = Append(@, wordChange(c.pLine2, ld))])
    ELSE IF /\ c.opts.charPrecision
            /\ i + 1 < Len(c.lineDiffs)
            /\ At(c.lineDiffs, i + 1).type = DIFF_IN_2
    THEN LET ld2  == At(c.lineDiffs, i + 1)
             off1 == At(c.pLine1, ld.off).pos
             end1 == At(c.pLine1, ld.off + ld.len - 1).pos + At(c.pLine1, ld.off + ld.len - 1).len
             off2 == At(c.pLine2, ld2.off).pos
             end2 == At(c.pLine2, ld2.off + ld2.len - 1).pos
                       + At(c.pLine2, ld2.off + ld2.len - 1).len
             sec1 == getSectionChars(c.d1, off1 + c.lineOff1, end1 + c.lineOff1, c.opts)
             sec2 == getSectionChars(c.d2, off2 + c.lineOff2, end2 + c.lineOff2, c.opts)
             outs == UNION {charOutcomes(sec1, sec2, off1, end1, off2, end2, r, c.opts) :
                              r \in DiffCalc(Chs(sec1), Chs(sec2))}
         IN UNION {IF o.kind = "matched"
                   THEN wordLoop(c, i + 2, [ch1 |-> st.ch1 \o o.ch1, ch2 |-> st.ch2 \o o.ch2,
                                            total |-> st.total + o.matched])
                   ELSE IF Len(c.lineDiffs) = 2 THEN {st}
                   ELSE wordLoop(c, i + 1,
                                 [st EXCEPT !.ch1 = Append(@, wordChange(c.pLine1, ld))])
                   : o \in outs}
    ELSE wordLoop(c, i + 1, [st EXCEPT !.ch1 = Append(@, wordChange(c.pLine1, ld))])

\* the body of the loop of compareLines for the pair (line1, line2) and one
\* result wordDiffRes of DiffCalc<Word>: the set of [keep, e1, e2] - the
\* changedLines entries of blockDiff1 and blockDiff2, and whether they stay
linePairOutcomes(txt, dc1, dc2, blockDiff1, blockDiff2, line1, line2, wordDiffRes, opts) ==
    LET sw     == wordDiffRes.swapped
        words1 == getLineWords(txt[dc1.view], At(dc1.lines, blockDiff1.off + line1).line, opts)
        words2 == getLineWords(txt[dc2.view], At(dc2.lines, blockDiff2.off + line2).line, opts)
        pDoc1  == IF sw THEN dc2 ELSE dc1
        pDoc2  == IF sw THEN dc1 ELSE dc2
        pBD1   == IF sw THEN blockDiff2 ELSE blockDiff1
        pBD2   == IF sw THEN blockDiff1 ELSE blockDiff2
        pl1    == IF sw THEN line2 ELSE line1
        pl2    == IF sw THEN line1 ELSE line2
        c == [d1 |-> txt[pDoc1.view], d2 |-> txt[pDoc2.view],
              pLine1 |-> IF sw THEN words2 ELSE words1,
              pLine2 |-> IF sw THEN words1 ELSE words2,
              lineOff1 |-> getLineStart(txt[pDoc1.view], At(pDoc1.lines, pl1 + pBD1.off).line),
              lineOff2 |-> getLineStart(txt[pDoc2.view], At(pDoc2.lines, pl2 + pBD2.off).line),
              lineDiffs |-> wordDiffRes.segs, opts |-> opts]
        lineLen1 == wordsLen(c.pLine1, 0, Len(c.pLine1))
        lineLen2 == wordsLen(c.pLine2, 0, Len(c.pLine2))
    IN {[keep |-> ~((st.total * 100) \div Max(lineLen1, lineLen2) < opts.matchPercentThreshold),
         e1 |-> IF sw THEN [line |-> pl2, changes |-> st.ch2]
                      ELSE [line |-> pl1, changes |-> st.ch1],
         e2 |-> IF sw THEN [line |-> pl1, changes |-> st.ch1]
                      ELSE [line |-> pl2, changes |-> st.ch2]]
        : st \in wordLoop(c, 0, [ch1 |-> <<>>, ch2 |-> <<>>, total |-> 0])}

\* a compareLines whose whole-line reject removes the entry of blockDiff1 only
RECURSIVE compareLinesFromOneSided(_, _, _, _, _, _, _, _, _, _)
compareLinesFromOneSided(txt, dc1, dc2, blockDiff1, blockDiff2, lineMappings, k, lastLine2, opts, acc) ==
    IF k > Len(lineMappings) THEN acc
    ELSE IF lineMappings[k].line2 <= lastLine2
        THEN compareLinesFromOneSided(txt, dc1, dc2, blockDiff1, blockDiff2, lineMappings,
                                      k + 1, lastLine2, opts, acc)
    ELSE LET line1 == lineMappings[k].line1
             line2 == lineMappings[k].line2
             words1 == getLineWords(txt[dc1.view], At(dc1.lines, blockDiff1.off + line1).line, opts)
             words2 == getLineWords(txt[dc2.view], At(dc2.lines, blockDiff2.off + line2).line, opts)
             outs == UNION {linePairOutcomes(txt, dc1, dc2, blockDiff1, blockDiff2,
                                             line1, line2, r, opts) :
                              r \in DiffCalc(WordHashes(words1), WordHashes(words2))}
         IN compareLinesFromOneSided(txt, dc1, dc2, blockDiff1, blockDiff2, lineMappings,
                             k + 1, line2, opts,
                             {IF o.keep THEN [cl1 |-> Append(a.cl1, o.e1), cl2 |-> Append(a.cl2, o.e2)]
                                        ELSE [cl1 |-> a.cl1, cl2 |-> Append(a.cl2, o.e2)]
                                 : a \in acc, o \in outs})

\* compareLines from the k-th mapping on: acc is the set of the pairs
\* [cl1, cl2] of changedLines lists of blockDiff1 and blockDiff2 reached so far
RECURSIVE compareLinesFrom(_, _, _, _, _, _, _, _, _, _)
compareLinesFrom(txt, dc1, dc2, blockDiff1, blockDiff2, lineMappings, k, lastLine2, opts, acc) ==
    IF k > Len(lineMappings) THEN acc
    ELSE IF lineMappings[k].line2 <= lastLine2
        THEN compareLinesFrom(txt, dc1, dc2, blockDiff1, blockDiff2, lineMappings, k + 1,
                              lastLine2, opts, acc)
    ELSE LET line1 == lineMappings[k].line1
             line2 == lineMappings[k].line2
             words1 == getLineWords(txt[dc1.view], At(dc1.lines, blockDiff1.off + line1).line, opts)
             words2 == getLineWords(txt[dc2.view], At(dc2.lines, blockDiff2.off + line2).line, opts)
             outs == UNION {linePairOutcomes(txt, dc1, dc2, blockDiff1, blockDiff2,
                                             line1, line2, r, opts) :
                              r \in DiffCalc(WordHashes(words1), WordHashes(words2))}
         IN compareLinesFrom(txt, dc1, dc2, blockDiff1, blockDiff2, lineMappings, k + 1,
                             line2, opts,
                             {IF o.keep THEN [cl1 |-> Append(a.cl1, o.e1), cl2 |-> Append(a.cl2, o.e2)]
                                        ELSE a : a \in acc, o \in outs})

\* compareLines: the changedLines lists [cl1, cl2] the two blocks may end with
compareLines(txt, dc1, dc2, blockDiff1, blockDiff2, lineMappings, opts) ==
    compareLinesFrom(txt, dc1, dc2, blockDiff1, blockDiff2, lineMappings, 1, -1, opts,
                     {[cl1 |-> blockDiff1.changedLines, cl2 |-> blockDiff2.changedLines]})

\* compareBlocks: the changedLines lists [cl1, cl2] the two blocks may end with
compareBlocks(txt, dc1, dc2, blockDiff1, blockDiff2, opts) ==
    LET chunk1 == getChars(dc1, txt[dc1.view], blockDiff1.off, blockDiff1.len, opts)
        chunk2 == getChars(dc2, txt[dc2.view], blockDiff2.off, blockDiff2.len, opts)
        best == bestLineMappings(
                    orderedLinesConvergence(blockDiff1, blockDiff2, chunk1, chunk2, opts),
                    1, Len(chunk1), Len(chunk2), 0, <<>>)
    IN IF best # <<>>
       THEN compareLines(txt, dc1, dc2, blockDiff1, blockDiff2, best, opts)
       ELSE {[cl1 |-> blockDiff1.changedLines, cl2 |-> blockDiff2.changedLines]}

-----------------------------------------------------------------------------
(* Marker and alignment emitter *)

\* the calls on the marker sink; line is the line the call is about
markerAddSet(view, line, mask) ==
    [call |-> "SCI_MARKERADDSET", view |-> view, line |-> line, mask |-> mask,
     pos |-> 0, len |-> 0]

markTextAsChanged(view, line, pos, len) ==
    [call |-> "markTextAsChanged", view |-> view, line |-> line, mask |-> "",
     pos |-> pos, len |-> len]

\* diffMask 0
NoMask == "0"

\* doc.lines[line].line; outside doc.lines the read is undefined
LineAt(doc, line) ==
    IF line >= 0 /\ line < Len(doc.lines) THEN {At(doc.lines, line).line}
    ELSE IndeterminateInts

\* toAlignmentLine; front() and back() of an empty doc.lines are undefined reads
toAlignmentLine(doc, bdLine) ==
    IF bdLine < 0
    THEN (IF doc.lines # <<>> THEN {doc.lines[1].line} ELSE IndeterminateInts)
    ELSE IF bdLine < Len(doc.lines) THEN {At(doc.lines, bdLine).line}
    ELSE IF doc.lines # <<>> THEN {doc.lines[Len(doc.lines)].line + 1}
    ELSE {x + 1 : x \in IndeterminateInts}

\* markSection: the block mask (or its local form) on docLine .. endDocLine - 1
RECURSIVE blockMarks(_, _, _)
blockMarks(doc, docLine, endDocLine) ==
    IF docLine >= endDocLine THEN <<>>
    ELSE <<markerAddSet(doc.view, docLine,
                IF docLine \notin doc.nonUniqueLines THEN doc.blockDiffMask
                ELSE IF doc.blockDiffMask = MARKER_MASK_ADDED THEN MARKER_MASK_ADDED_LOCAL
                ELSE MARKER_MASK_REMOVED_LOCAL)>>
         \o blockMarks(doc, docLine + 1, endDocLine)

\* markSection: MOVED_MID on docLine .. endDocLine - 1
RECURSIVE midMarks(_, _, _)
midMarks(view, docLine, endDocLine) ==
    IF docLine >= endDocLine THEN <<>>
    ELSE <<markerAddSet(view, docLine, MARKER_MASK_MOVED_MID)>>
         \o midMarks(view, docLine + 1, endDocLine)

\* markSection: the first index from i on that is moved or at the end of the section
RECURSIVE unmovedEnd(_, _, _)
unmovedEnd(bd, i, endOff) ==
    IF i < endOff /\ movedSection(bd, i) = 0 THEN unmovedEnd(bd, i + 1, endOff) ELSE i

\* the loop of markSection from index i on: the call sequences it may make
\* (one, unless it reads outside doc.lines), after calls
RECURSIVE markSectionFrom(_, _, _, _)
markSectionFrom(doc, bd, i, calls) ==
    LET endOff == doc.section.off + doc.section.len
        ml == movedSection(bd, i)
        movedLen == IF ml > doc.section.len THEN doc.section.len ELSE ml
    IN  IF i >= endOff THEN {calls}
        ELSE IF movedLen = 0
        THEN LET last == unmovedEnd(bd, i + 1, endOff) - 1 IN
             UNION {markSectionFrom(doc, bd, last + 1,
                                    calls \o blockMarks(doc, docLine, lastDocLine + 1)) :
                      docLine \in LineAt(doc, bd.off + i),
                      lastDocLine \in LineAt(doc, bd.off + last)}
        ELSE IF movedLen = 1
        THEN UNION {markSectionFrom(doc, bd, i + 1,
                        Append(calls, markerAddSet(doc.view, docLine, MARKER_MASK_MOVED_LINE))) :
                      docLine \in LineAt(doc, bd.off + i)}
        ELSE UNION {markSectionFrom(doc, bd, i + movedLen,
                        calls \o <<markerAddSet(doc.view, docLine, MARKER_MASK_MOVED_BEGIN)>>
                              \o midMarks(doc.view, docLine + 1, endDocLine)
                              \o <<markerAddSet(doc.view, Max(docLine + 1, endDocLine),
                                                MARKER_MASK_MOVED_END)>>) :
                      docLine \in LineAt(doc, bd.off + i),
                      endDocLine \in LineAt(doc, bd.off + i + movedLen - 1)}

\* markSection(doc, bd): the call sequences it may make
markSection(doc, bd) == markSectionFrom(doc, bd, doc.section.off, <<>>)

\* the loop of markSection from index i on: the indices of doc.lines it reads
RECURSIVE markSectionReadsFrom(_, _, _)
markSectionReadsFrom(doc, bd, i) ==
    LET endOff == doc.section.off + doc.section.len
        ml == movedSection(bd, i)
        movedLen == IF ml > doc.section.len THEN doc.section.len ELSE ml
    IN  IF i >= endOff THEN {}
        ELSE IF movedLen = 0
        THEN LET last == unmovedEnd(bd, i + 1, endOff) - 1 IN
             {bd.off + i, bd.off + last} \cup markSectionReadsFrom(doc, bd, last + 1)
        ELSE IF movedLen = 1
        THEN {bd.off + i} \cup markSectionReadsFrom(doc, bd, i + 1)
        ELSE {bd.off + i, bd.off + i + movedLen - 1}
             \cup markSectionReadsFrom(doc, bd, i + movedLen)

\* markSection(doc, bd): the indices of doc.lines it reads
markSectionReads(doc, bd) == markSectionReadsFrom(doc, bd, doc.section.off)

\* markLineDiffs(cmpInfo, bd, lineIdx): the calls it makes; mb is *bd.info.matchBlock
markLineDiffs(txt, dc1, dc2, bd, mb, lineIdx) ==
    LET cl1      == At(bd.changedLines, lineIdx)
        line1    == At(dc1.lines, bd.off + cl1.line).line
        linePos1 == getLineStart(txt[dc1.view], line1)
        cl2      == At(mb.changedLines, lineIdx)
        line2    == At(dc2.lines, mb.off + cl2.line).line
        linePos2 == getLineStart(txt[dc2.view], line2)
    IN  [k \in 1..Len(cl1.changes) |->
            markTextAsChanged(dc1.view, line1, linePos1 + cl1.changes[k].off, cl1.changes[k].len)]
        \o <<markerAddSet(dc1.view, line1,
                          IF line1 \notin dc1.nonUniqueLines THEN MARKER_MASK_CHANGED
                          ELSE MARKER_MASK_CHANGED_LOCAL)>>
        \o [k \in 1..Len(cl2.changes) |->
            markTextAsChanged(dc2.view, line2, linePos2 + cl2.changes[k].off, cl2.changes[k].len)]
        \o <<markerAddSet(dc2.view, line2,
                          IF line2 \notin dc2.nonUniqueLines THEN MARKER_MASK_CHANGED
                          ELSE MARKER_MASK_CHANGED_LOCAL)>>

\* markAllDiffs works on m = [doc1, doc2, alignLines, alignmentInfo, sink]: the
\* two documents of cmpInfo (it sets their sections), its local alignLines, the
\* caller's alignmentInfo and the calls made on the marker sink.

\* an alignment pair with pMainAlignData linked to doc1 whatever its view
alignPairOfDoc1(dc1, dc2, mask1, line1, mask2, line2) ==
    [main |-> [line |-> line1, diffMask |-> mask1],
     sub  |-> [line |-> line2, diffMask |-> mask2]]

\* the alignment pair of markAllDiffs: pMainAlignData is linked to doc1 unless
\* doc1 is the document of SUB_VIEW
alignPair(dc1, dc2, mask1, line1, mask2, line2) ==
    IF dc1.view = SUB_VIEW
    THEN [main |-> [line |-> line2, diffMask |-> mask2],
          sub  |-> [line |-> line1, diffMask |-> mask1]]
    ELSE [main |-> [line |-> line1, diffMask |-> mask1],
          sub  |-> [line |-> line2, diffMask |-> mask2]]

\* alignmentInfo.emplace_back(alignPair) with the two masks and the lines of alignLines
emitPair(m, mask1, mask2) ==
    {[m EXCEPT !.alignmentInfo = Append(@, alignPair(m.doc1, m.doc2, mask1, l1, mask2, l2))] :
        l1 \in toAlignmentLine(m.doc1, m.alignLines[1]),
        l2 \in toAlignmentLine(m.doc2, m.alignLines[2])}

\* markSection(cmpInfo.doc1, bd) and alignLines.first += section.len
markDoc1(m, bd) ==
    {[m EXCEPT !.sink = @ \o calls, !.alignLines[1] = @ + m.doc1.section.len] :
        calls \in markSection(m.doc1, bd)}

\* markSection(cmpInfo.doc2, bd) and alignLines.second += section.len
markDoc2(m, bd) ==
    {[m EXCEPT !.sink = @ \o calls, !.alignLines[2] = @ + m.doc2.section.len] :
        calls \in markSection(m.doc2, bd)}

\* "if (doc1.section.len || doc2.section.len)": the pair and the markers of the
\* lines of the two blocks before a changed line (or after the last one)
markGap(m, bd, mb) ==
    IF m.doc1.section.len # 0 \/ m.doc2.section.len # 0
    THEN UNION {UNION {IF m2.doc2.section.len # 0 THEN markDoc2(m2, mb) ELSE {m2} :
                        m2 \in (IF m1.doc1.section.len # 0 THEN markDoc1(m1, bd) ELSE {m1})} :
                  m1 \in emitPair(m,
                            IF m.doc1.section.len # 0 THEN m.doc1.blockDiffMask ELSE NoMask,
                            IF m.doc2.section.len # 0 THEN m.doc2.blockDiffMask ELSE NoMask)}
    ELSE {m}

\* the loop over the changed lines of a paired IN_1 block bd, from the j-th on
RECURSIVE changedLinesLoop(_, _, _, _, _)
changedLinesLoop(txt, m, bd, mb, j) ==
    IF j >= Len(bd.changedLines) THEN {m}
    ELSE LET line1 == At(bd.changedLines, j).line
             line2 == At(mb.changedLines, j).line
         IN UNION {UNION {changedLinesLoop(txt,
                              [m3 EXCEPT !.sink = @ \o markLineDiffs(txt, m3.doc1, m3.doc2, bd, mb, j),
                                         !.doc1.section.off = line1 + 1,
                                         !.doc2.section.off = line2 + 1,
                                         !.alignLines = <<@[1] + 1, @[2] + 1>>],
                              bd, mb, j + 1) :
                            m3 \in emitPair(m2, MARKER_MASK_CHANGED, MARKER_MASK_CHANGED)} :
                     m2 \in markGap([m EXCEPT !.doc1.section.len = line1 - m.doc1.section.off,
                                              !.doc2.section.len = line2 - m.doc2.section.off],
                                    bd, mb)}

\* the body of the loop of markAllDiffs for block i (0-based): the states m it may
\* lead to; a paired IN_1 block takes its IN_2 block with it
markAllDiffsBlock(txt, m, bds, i) ==
    LET bd == At(bds, i) IN
    IF bd.type = DIFF_MATCH
    THEN {[m1 EXCEPT !.alignLines = <<@[1] + bd.len, @[2] + bd.len>>] :
            m1 \in emitPair(m, NoMask, NoMask)}
    ELSE IF bd.type = DIFF_IN_2
    THEN UNION {{[m2 EXCEPT !.alignLines[2] = m.alignLines[2] + bd.len] :
                    m2 \in emitPair([m1 EXCEPT !.alignLines = m.alignLines],
                                    NoMask, m.doc2.blockDiffMask)} :
                  m1 \in markDoc2([m EXCEPT !.doc2.section = section_t(0, bd.len)], bd)}
    ELSE IF bd.matchBlock # 0
    THEN LET mb == bds[bd.matchBlock] IN
         UNION {markGap([m1 EXCEPT !.doc1.section.len = bd.len - m1.doc1.section.off,
                                   !.doc2.section.len = mb.len - m1.doc2.section.off],
                        bd, mb) :
                  m1 \in changedLinesLoop(txt, [m EXCEPT !.doc1.section.off = 0,
                                                          !.doc2.section.off = 0],
                                          bd, mb, 0)}
    ELSE UNION {{[m2 EXCEPT !.alignLines[1] = m.alignLines[1] + bd.len] :
                    m2 \in emitPair([m1 EXCEPT !.alignLines = m.alignLines],
                                    m.doc1.blockDiffMask, NoMask)} :
                  m1 \in markDoc1([m EXCEPT !.doc1.section = section_t(0, bd.len)], bd)}

\* the index of the block the loop of markAllDiffs goes to after block i
markAllDiffsNext(bds, i) ==
    IF At(bds, i).type = DIFF_IN_1 /\ At(bds, i).matchBlock # 0 THEN i + 2 ELSE i + 1

\* markAllDiffs after its loop: the two closing pairs of a selection compare
markAllDiffsTail(m, opts) ==
    IF opts.selectionCompare
    THEN {[m1 EXCEPT !.alignmentInfo =
                Append(@, alignPair(m.doc1, m.doc2,
                                    NoMask, opts.selections[m.doc1.view][2],
                                    NoMask, opts.selections[m.doc2.view][2]))] :
            m1 \in emitPair(m, NoMask, NoMask)}
    ELSE {m}

-----------------------------------------------------------------------------
(* compareViews, runCompare and runFindUnique: one action per step.  pc is   *)
(* the step the run is at:                                                   *)
(*   compareViews, getLines1, nextPhase1, getLines2, nextPhase2,             *)
(*   DiffCalc, findMoves / resolveMatch, findMovesDone, compareBlocks,       *)
(*   nextPhase4, markAllDiffs, markAllDiffsLoop, nextPhase5,                 *)
(*   unique1, nextPhaseU1, unique2, nextPhaseU2, markUnique,                 *)
(*   return (ProgressDlg::Close is next), done (compareViews has returned).  *)

\* compareViews up to the call of getLines(doc1) in runCompare / runFindUnique
CompareViews ==
    /\ pc = "compareViews"
    /\ result' = COMPARE_ERROR
    /\ progress' = [progress EXCEPT !.open = progress.info]
    /\ doc1' = docSetup(MAIN_VIEW, options)
    /\ doc2' = docSetup(SUB_VIEW, options)
    /\ alignmentInfo' = IF options.findUniqueMode THEN <<>> ELSE alignmentInfo
    /\ pc' = "getLines1"
    /\ UNCHANGED <<options, text, blockDiffs, fm, rs, loopI, alignLines, uniqueLines, sink>>

\* getLines(doc1) and getLines(doc2)
GetLines ==
    /\ pc \in {"getLines1", "getLines2"}
    /\ \E r \in {IF pc = "getLines1"
                 THEN getLines(doc1, text[doc1.view], options, progress)
                 ELSE getLines(doc2, text[doc2.view], options, progress)} :
        /\ doc1' = IF pc = "getLines1" THEN r.doc ELSE doc1
        /\ doc2' = IF pc = "getLines1" THEN doc2 ELSE r.doc
        /\ progress' = r.progress
    /\ pc' = IF pc = "getLines1" THEN "nextPhase1" ELSE "nextPhase2"
    /\ UNCHANGED <<options, text, blockDiffs, fm, rs, loopI, alignLines, uniqueLines,
                   alignmentInfo, sink, result>>

\* the steps at which the run polls progress->NextPhase()
NextPhasePcs ==
    {"nextPhase1", "nextPhase2", "findMovesDone", "nextPhase4", "nextPhase5",
     "nextPhaseU1", "nextPhaseU2"}

\* the step after a NextPhase() that lets the run go on
afterNextPhase(p, opts) ==
    CASE p = "nextPhase1"    -> "getLines2"
      [] p = "nextPhase2"    -> IF opts.findUniqueMode THEN "unique1" ELSE "DiffCalc"
      [] p = "findMovesDone" -> "compareBlocks"
      [] p = "nextPhase4"    -> "markAllDiffs"
      [] p = "nextPhase5"    -> "return"
      [] p = "nextPhaseU1"   -> "unique2"
      [] p = "nextPhaseU2"   -> "markUnique"

\* a NextPhase whose answer is not looked at: the run goes on after a poll that
\* has reported the cancellation
NextPhaseUnchecked ==
    /\ pc \in NextPhasePcs
    /\ progress' = Poll(progress).progress
    /\ pc' = afterNextPhase(pc, options)
    /\ result' = IF pc = "nextPhase5" THEN COMPARE_MISMATCH ELSE result
    /\ loopI' = IF pc = "findMovesDone" THEN 1 ELSE loopI
    /\ UNCHANGED <<options, text, doc1, doc2, blockDiffs, fm, rs, alignLines, uniqueLines,
                   alignmentInfo, sink>>

\* "if (progress && !progress->NextPhase()) return COMPARE_CANCELLED;" (markAllDiffs:
\* return false, on which runCompare returns COMPARE_CANCELLED); after the last one
\* runCompare returns COMPARE_MISMATCH
NextPhase ==
    /\ pc \in NextPhasePcs
    /\ \E r \in {Poll(progress)} :
        /\ progress' = r.progress
        /\ pc' = IF r.ok THEN afterNextPhase(pc, options) ELSE "return"
        /\ result' = IF ~r.ok THEN COMPARE_CANCELLED
                     ELSE IF pc = "nextPhase5" THEN COMPARE_MISMATCH
                     ELSE result
    /\ loopI' = IF pc = "findMovesDone" THEN 1 ELSE loopI
    /\ UNCHANGED <<options, text, doc1, doc2, blockDiffs, fm, rs, alignLines, uniqueLines,
                   alignmentInfo, sink>>

\* DiffCalc on the lines, the swap, the early return of COMPARE_MATCH,
\* findUniqueLines and the entry of findMoves
DiffStage ==
    /\ pc = "DiffCalc"
    /\ \E diffRes \in DiffCalc(Hashes(doc1.lines), Hashes(doc2.lines)) :
        \E ds \in {diffStage(doc1, doc2, diffRes, options)} :
            /\ pc' = ds.pc
            /\ result' = ds.result
            /\ doc1' = ds.doc1
            /\ doc2' = ds.doc2
            /\ blockDiffs' = ds.blockDiffs
            /\ fm' = findMovesEnter([L1 |-> ds.doc1.lines, L2 |-> ds.doc2.lines,
                                     blockDiffs |-> ds.blockDiffs, pc |-> ds.pc,
                                     fm |-> fm, rs |-> rs]).fm
    /\ rs' = NoFrame
    /\ UNCHANGED <<options, text, progress, loopI, alignLines, uniqueLines,
                   alignmentInfo, sink>>

\* the body of the block-compare loop with the link set on blockDiff1 only
blockCompareOneWay(txt, dc1, dc2, bds, i, opts) ==
    IF At(bds, i).type = DIFF_IN_2 /\ At(bds, i - 1).type = DIFF_IN_1
    THEN LET blockDiff1 == [At(bds, i - 1) EXCEPT !.matchBlock = i + 1]
             blockDiff2 == At(bds, i)
         IN {[bds EXCEPT ![i] = [blockDiff1 EXCEPT !.changedLines = out.cl1],
                         ![i + 1] = [blockDiff2 EXCEPT !.changedLines = out.cl2]] :
                out \in compareBlocks(txt, dc1, dc2, blockDiff1, blockDiff2, opts)}
    ELSE {bds}

\* the body of the block-compare loop for index i: the blockDiffs it may leave
blockCompare(txt, dc1, dc2, bds, i, opts) ==
    IF At(bds, i).type = DIFF_IN_2 /\ At(bds, i - 1).type = DIFF_IN_1
    THEN LET blockDiff1 == [At(bds, i - 1) EXCEPT !.matchBlock = i + 1]
             blockDiff2 == [At(bds, i) EXCEPT !.matchBlock = i]
         IN {[bds EXCEPT ![i] = [blockDiff1 EXCEPT !.changedLines = out.cl1],
                         ![i + 1] = [blockDiff2 EXCEPT !.changedLines = out.cl2]] :
                out \in compareBlocks(txt, dc1, dc2, blockDiff1, blockDiff2, opts)}
    ELSE {bds}

\* one turn of the block-compare loop of runCompare
CompareBlocksLoop ==
    /\ pc = "compareBlocks"
    /\ IF loopI < Len(blockDiffs)
       THEN \E bds \in blockCompare(text, doc1, doc2, blockDiffs, loopI, options) :
              \E r \in {Poll(progress)} :
                /\ blockDiffs' = bds
                /\ progress' = r.progress
                /\ loopI' = IF r.ok THEN loopI + 1 ELSE loopI
                /\ pc' = IF r.ok THEN pc ELSE "return"
                /\ result' = IF r.ok THEN result ELSE COMPARE_CANCELLED
       ELSE /\ pc' = "nextPhase4"
            /\ UNCHANGED <<blockDiffs, progress, loopI, result>>
    /\ UNCHANGED <<options, text, doc1, doc2, fm, rs, alignLines, uniqueLines,
                   alignmentInfo, sink>>

\* markAllDiffs is entered: alignmentInfo.clear(), alignLines {0, 0}
MarkAllDiffs ==
    /\ pc = "markAllDiffs"
    /\ alignmentInfo' = <<>>
    /\ alignLines' = <<0, 0>>
    /\ loopI' = 0
    /\ pc' = "markAllDiffsLoop"
    /\ UNCHANGED <<options, text, progress, doc1, doc2, blockDiffs, fm, rs, uniqueLines,
                   sink, result>>

\* one turn of the loop of markAllDiffs and, after the last, the closing pairs
MarkAllDiffsLoop ==
    /\ pc = "markAllDiffsLoop"
    /\ \E m \in {[doc1 |-> doc1, doc2 |-> doc2, alignLines |-> alignLines,
                  alignmentInfo |-> alignmentInfo, sink |-> sink]} :
        IF loopI < Len(blockDiffs)
        THEN \E m2 \in markAllDiffsBlock(text, m, blockDiffs, loopI) :
               \E r \in {Poll(progress)} :
                 /\ doc1' = m2.doc1
                 /\ doc2' = m2.doc2
                 /\ alignLines' = m2.alignLines
                 /\ alignmentInfo' = m2.alignmentInfo
                 /\ sink' = m2.sink
                 /\ progress' = r.progress
                 /\ loopI' = IF r.ok THEN markAllDiffsNext(blockDiffs, loopI) ELSE loopI
                 /\ pc' = IF r.ok THEN pc ELSE "return"
                 /\ result' = IF r.ok THEN result ELSE COMPARE_CANCELLED
        ELSE \E m2 \in markAllDiffsTail(m, options) :
                 /\ alignmentInfo' = m2.alignmentInfo
                 /\ pc' = "nextPhase5"
                 /\ UNCHANGED <<doc1, doc2, alignLines, sink, progress, loopI, result>>
    /\ UNCHANGED <<options, text, blockDiffs, fm, rs, uniqueLines>>

\* the std::unordered_map built from the lines: hash -> the lines with that
\* hash, in the order of lines
uniqueMap(lines) ==
    [h \in {lines[k].hash : k \in DOMAIN lines} |->
        LET same == SelectSeq(lines, LAMBDA l : l.hash = h)
        IN [k \in DOMAIN same |-> same[k].line]]

\* runFindUnique: doc1UniqueLines (doc2UniqueLines) is built and doc1.lines
\* (doc2.lines) cleared
BuildUnique ==
    /\ pc \in {"unique1", "unique2"}
    /\ IF pc = "unique1"
       THEN /\ uniqueLines' = [uniqueLines EXCEPT ![1] = uniqueMap(doc1.lines)]
            /\ doc1' = [doc1 EXCEPT !.lines = <<>>]
            /\ doc2' = doc2
            /\ pc' = "nextPhaseU1"
       ELSE /\ uniqueLines' = [uniqueLines EXCEPT ![2] = uniqueMap(doc2.lines)]
            /\ doc2' = [doc2 EXCEPT !.lines = <<>>]
            /\ doc1' = doc1
            /\ pc' = "nextPhaseU2"
    /\ UNCHANGED <<options, text, progress, blockDiffs, fm, rs, loopI, alignLines,
                   alignmentInfo, sink, result>>

\* the orders in which a range-for may visit the keys S of a std::unordered_map
Orders(S) == {o \in [1..Cardinality(S) -> S] : \A h \in S : \E k \in DOMAIN o : o[k] = h}

\* SCI_MARKERADDSET with mask on every line of every key of order
RECURSIVE uniqueMarksAll(_, _, _, _, _, _)
uniqueMarksAll(uniq, order, k, keep, view, mask) ==
    IF k > Len(order) THEN <<>>
    ELSE [j \in DOMAIN uniq[order[k]] |-> markerAddSet(view, uniq[order[k]][j], mask)]
         \o uniqueMarksAll(uniq, order, k + 1, keep, view, mask)

\* SCI_MARKERADDSET with mask on every line of every key of order that passes keep
RECURSIVE uniqueMarks(_, _, _, _, _, _)
uniqueMarks(uniq, order, k, keep, view, mask) ==
    IF k > Len(order) THEN <<>>
    ELSE (IF order[k] \in keep
          THEN [j \in DOMAIN uniq[order[k]] |-> markerAddSet(view, uniq[order[k]][j], mask)]
          ELSE <<>>)
         \o uniqueMarks(uniq, order, k + 1, keep, view, mask)

\* runFindUnique from the loop over doc1UniqueLines to its return
FindUniqueMark ==
    /\ pc = "markUnique"
    /\ \E left2 \in {DOMAIN uniqueLines[2] \ DOMAIN uniqueLines[1]} :
        \E order1 \in Orders(DOMAIN uniqueLines[1]), order2 \in Orders(left2) :
          \E marks1 \in {uniqueMarks(uniqueLines[1], order1, 1,
                                     DOMAIN uniqueLines[1] \ DOMAIN uniqueLines[2],
                                     doc1.view, doc1.blockDiffMask)} :
            /\ uniqueLines' = [uniqueLines EXCEPT
                                  ![2] = [h \in left2 |-> uniqueLines[2][h]]]
            /\ IF Len(marks1) = 0 /\ left2 = {}
               THEN /\ result' = COMPARE_MATCH
                    /\ UNCHANGED <<sink, alignmentInfo>>
               ELSE /\ result' = COMPARE_MISMATCH
                    /\ sink' = sink \o marks1
                                 \o uniqueMarks(uniqueLines[2], order2, 1, left2,
                                                doc2.view, doc2.blockDiffMask)
                    /\ alignmentInfo' =
                         Append(alignmentInfo,
                                [main |-> [line |-> doc1.section.off, diffMask |-> NoMask],
                                 sub  |-> [line |-> doc2.section.off, diffMask |-> NoMask]])
    /\ pc' = "return"
    /\ UNCHANGED <<options, text, progress, doc1, doc2, blockDiffs, fm, rs, loopI, alignLines>>

\* runCompare / runFindUnique has returned: ProgressDlg::Close() and the return
\* of compareViews
Return ==
    /\ pc = "return"
    /\ progress' = [progress EXCEPT !.open = FALSE]
    /\ pc' = "done"
    /\ UNCHANGED <<options, text, doc1, doc2, blockDiffs, fm, rs, loopI, alignLines,
                   uniqueLines, alignmentInfo, sink, result>>

\* the user cancels the progress dialog while the run is going on
UserCancel ==
    /\ pc \notin {"compareViews", "return", "done"}
    /\ progress.open
    /\ ~progress.cancelled
    /\ progress' = [progress EXCEPT !.cancelled = TRUE]
    /\ UNCHANGED <<options, text, pc, doc1, doc2, blockDiffs, fm, rs, loopI, alignLines,
                   uniqueLines, alignmentInfo, sink, result>>

\* the steps in which the run allocates (vectors, maps, the alignment output)
\* and so may throw; the two loops do so as long as a turn (or the closing pairs
\* of a selection compare) is left
ThrowingPcs ==
    {"getLines1", "getLines2", "DiffCalc", "findMoves", "resolveMatch", "compareBlocks",
     "markAllDiffsLoop", "unique1", "unique2", "markUnique"}

\* an exception is thrown inside the try block of compareViews: the catch
\* handlers call ProgressDlg::Close() and compareViews returns result as it is
Fault ==
    /\ pc \in ThrowingPcs
    /\ pc = "compareBlocks" => loopI < Len(blockDiffs)
    /\ pc = "markAllDiffsLoop" => loopI < Len(blockDiffs) \/ options.selectionCompare
    /\ progress' = [progress EXCEPT !.open = FALSE]
    /\ pc' = "done"
    /\ UNCHANGED <<options, text, doc1, doc2, blockDiffs, fm, rs, loopI, alignLines,
                   uniqueLines, alignmentInfo, sink, result>>

-----------------------------------------------------------------------------
(* Inputs *)

\* the options every input family starts from
BaseOptions ==
    [ignoreCase |-> FALSE, ignoreSpaces |-> FALSE, ignoreEmptyLines |-> FALSE,
     detectMoves |-> TRUE, charPrecision |-> FALSE, matchPercentThreshold |-> 50,
     selectionCompare |-> FALSE,
     selections |-> [v \in Views |-> <<0, 0>>],
     findUniqueMode |-> FALSE, oldFileViewId |-> MAIN_VIEW]

\* a document of the given lines; the document without lines is one empty line
Document(ls) == IF ls = <<>> THEN << <<>> >> ELSE ls

\* an alignment pair the caller's alignment output may hold from an earlier run
StalePair ==
    [main |-> [line |-> -1, diffMask |-> NoMask], sub |-> [line |-> -1, diffMask |-> NoMask]]

\* one input of compareViews: the options, the documents of the two views,
\* whether a progress text is given and what the alignment output holds
RunInput(opts, d1, d2, info, before) ==
    [options |-> opts,
     text |-> [v \in Views |-> IF v = MAIN_VIEW THEN Document(d1) ELSE Document(d2)],
     info |-> info, alignmentInfo |-> before]

\* the normalized line hashes getLines gives for document d in view
normalized(d, view, opts) ==
    Hashes(getLines(docSetup(view, opts), Document(d), opts, NoProgress).doc.lines)

\* the move scenario: [A,B,C,D,E] against [A,D,B,C,E]
ScenarioMain == <<<<"A">>, <<"B">>, <<"C">>, <<"D">>, <<"E">>>>

ScenarioSub == <<<<"A">>, <<"D">>, <<"B">>, <<"C">>, <<"E">>>>

ScenarioInputs ==
    {RunInput(BaseOptions, ScenarioMain, ScenarioSub, info, before) :
        info \in BOOLEAN, before \in {<<>>, <<StalePair>>}}

\* small documents of one-word and three-word lines, compared as a whole
MaxMainLines == 3

MaxSubLines == 2

GeneralLines == {<<"a">>, <<"a", " ", "b">>, <<"a", " ", "c">>}

GeneralOptions ==
    {BaseOptions,
     [BaseOptions EXCEPT !.charPrecision = TRUE],
     [BaseOptions EXCEPT !.detectMoves = FALSE, !.oldFileViewId = SUB_VIEW]}

GeneralInputs ==
    {RunInput(opts, d1, d2, info, <<>>) :
        opts \in GeneralOptions,
        d1 \in SeqsUpTo(GeneralLines, MaxMainLines),
        d2 \in SeqsUpTo(GeneralLines, MaxSubLines),
        info \in BOOLEAN}

\* documents that are equal once normalized, under every normalization option,
\* in both modes
MaxEqualLines == 2

EqualLines == {<<>>, <<" ">>, <<"a">>, <<"A">>, <<" ", "a">>}

EqualOptions ==
    {[BaseOptions EXCEPT !.ignoreCase = ic, !.ignoreSpaces = is, !.ignoreEmptyLines = ie,
                         !.detectMoves = dm, !.findUniqueMode = fu] :
        ic \in BOOLEAN, is \in BOOLEAN, ie \in BOOLEAN, dm \in BOOLEAN, fu \in BOOLEAN}

EqualInputs ==
    {x \in {RunInput(opts, d1, d2, TRUE, before) :
                opts \in EqualOptions,
                d1 \in SeqsUpTo(EqualLines, MaxEqualLines),
                d2 \in SeqsUpTo(EqualLines, MaxEqualLines),
                before \in {<<>>, <<StalePair>>}} :
        normalized(x.text[MAIN_VIEW], MAIN_VIEW, x.options)
            = normalized(x.text[SUB_VIEW], SUB_VIEW, x.options)}

\* the find-unique mode on small documents
MaxUniqueLines == 2

UniqueLines == {<<"a">>, <<"b">>, <<"c">>}

UniqueInputs ==
    {RunInput([BaseOptions EXCEPT !.findUniqueMode = TRUE], d1, d2, info, <<>>) :
        d1 \in SeqsUpTo(UniqueLines, MaxUniqueLines),
        d2 \in SeqsUpTo(UniqueLines, MaxUniqueLines),
        info \in BOOLEAN}

\* the compare of a selection of each view
MaxSelectionLines == 2

SelectionLines == {<<"a">>, <<"b">>}

Selections(d) == {sel \in (0..(Len(d) - 1)) \X (0..(Len(d) - 1)) : sel[1] <= sel[2]}

SelectionInputs ==
    UNION {{RunInput([BaseOptions EXCEPT !.selectionCompare = TRUE,
                                         !.selections = [v \in Views |->
                                            IF v = MAIN_VIEW THEN s1 ELSE s2]],
                     d1, d2, FALSE, <<>>) :
                s1 \in Selections(d1), s2 \in Selections(d2)} :
            d1 \in SeqsUpTo(SelectionLines, MaxSelectionLines) \ {<<>>},
            d2 \in SeqsUpTo(SelectionLines, MaxSelectionLines) \ {<<>>}}

\* one-line documents whose lines differ in one word of one or three letters,
\* at the start or at the end of the line, compared with character precision
SectionLines ==
    {<<"b", "b", "b", " ", "a">>, <<"b", " ", "a">>,
     <<"a", " ", "b", "c", "b">>, <<"a", " ", "c">>}

SectionInputs ==
    {RunInput([BaseOptions EXCEPT !.charPrecision = TRUE], <<l1>>, <<l2>>, info, <<>>) :
        l1 \in SectionLines, l2 \in SectionLines, info \in BOOLEAN}

\* the substitution scenario: "prefix_OLD_suffix" against "prefix_NEW_suffix"
\* with character precision
SubstitutionMain ==
    << <<"p", "r", "e", "f", "i", "x", "_", "O", "L", "D", "_", "s", "u", "f", "f", "i", "x">> >>

SubstitutionSub ==
    << <<"p", "r", "e", "f", "i", "x", "_", "N", "E", "W", "_", "s", "u", "f", "f", "i", "x">> >>

SubstitutionInputs ==
    {RunInput([BaseOptions EXCEPT !.charPrecision = TRUE],
              SubstitutionMain, SubstitutionSub, info, <<>>) : info \in BOOLEAN}

\* three-line documents of empty and three-word lines, compared with move
\* detection and character precision: a pair of blocks may hold a moved line
\* next to changed lines, or an empty line
MaxPairedLines == 3

PairedMainLines == {<<>>, <<"a", " ", "b">>, <<"a", " ", "d">>}

PairedSubLines == {<<>>, <<"a", " ", "b">>, <<"a", " ", "c">>}

PairedInputs ==
    {RunInput([BaseOptions EXCEPT !.charPrecision = TRUE], d1, d2, FALSE, <<>>) :
        d1 \in [1..MaxPairedLines -> PairedMainLines],
        d2 \in [1..MaxPairedLines -> PairedSubLines]}

\* a document whose lines b, c come after a common run in one view and before
\* it in the other, one b being repeated
RepeatedMain == << <<"a">>, <<"a">>, <<"a">>, <<"b">>, <<"b">>, <<"c">> >>

RepeatedSub == << <<"b">>, <<"c">>, <<"a">>, <<"a">>, <<"a">> >>

RepeatedInputs ==
    {RunInput(BaseOptions, RepeatedMain, RepeatedSub, info, <<>>) : info \in BOOLEAN}

\* two-line documents of one-word and two-word lines compared word by word: the
\* lines "ab" and "ac" have half of their characters in common and no word
MaxWordLines == 2

WordMainLines == {<<"a", "b">>, <<"a", " ", "b">>}

WordSubLines == {<<"a", "c">>, <<"a", " ", "c">>}

WordInputs ==
    {RunInput(BaseOptions, d1, d2, FALSE, <<>>) :
        d1 \in [1..MaxWordLines -> WordMainLines],
        d2 \in [1..MaxWordLines -> WordSubLines]}

RunInputs ==
    ScenarioInputs \cup GeneralInputs \cup EqualInputs \cup UniqueInputs \cup SelectionInputs
        \cup SectionInputs \cup SubstitutionInputs \cup PairedInputs \cup RepeatedInputs
        \cup WordInputs

-----------------------------------------------------------------------------
(* Specification of the move detector alone: it starts in the states in    *)
(* which runCompare calls findMoves.                                       *)

MaxLines1 == 5

MaxLines2 == 4

\* one-byte lines
MoveLines == {<<"a">>, <<"b">>}

InitMoves ==
    \E l1 \in SeqsUpTo(MoveLines, MaxLines1), l2 \in SeqsUpTo(MoveLines, MaxLines2) :
      \E d1 \in {getLines(docSetup(MAIN_VIEW, BaseOptions), Document(l1), BaseOptions, NoProgress).doc},
         d2 \in {getLines(docSetup(SUB_VIEW, BaseOptions), Document(l2), BaseOptions, NoProgress).doc} :
        \E diffRes \in DiffCalc(Hashes(d1.lines), Hashes(d2.lines)) :
          \E ds \in {diffStage(d1, d2, diffRes, BaseOptions)} :
             /\ ds.pc = "findMoves"
             /\ options = BaseOptions
             /\ text = [v \in Views |-> IF v = MAIN_VIEW THEN Document(l1) ELSE Document(l2)]
             /\ progress = NoProgress
             /\ pc = "findMoves"
             /\ doc1 = ds.doc1
             /\ doc2 = ds.doc2
             /\ blockDiffs = ds.blockDiffs
             /\ fm = findMovesEnter([L1 |-> ds.doc1.lines, L2 |-> ds.doc2.lines,
                                     blockDiffs |-> ds.blockDiffs, pc |-> ds.pc,
                                     fm |-> 0, rs |-> 0]).fm
             /\ rs = NoFrame
             /\ loopI = 0
             /\ alignLines = <<0, 0>>
             /\ uniqueLines = <<<<>>, <<>>>>
             /\ alignmentInfo = <<>>
             /\ sink = <<>>
             /\ result = COMPARE_ERROR

NextMoves == FindMovesLoop \/ ResolveMatchCall

SpecMoves == InitMoves /\ [][NextMoves]_vars

-----------------------------------------------------------------------------
(* Claims about the move detector *)

\* the in-block indices a span covers
SpanLines(m) == m.off .. (m.off + m.len - 1)

\* no in-block index of bd is covered by two spans of its moves list
MovesDisjoint(bd) ==
    \A i, j \in 1..Len(bd.moves) :
        i < j => SpanLines(bd.moves[i]) \cap SpanLines(bd.moves[j]) = {}

\* the moves list of bd is sorted ascending by span offset
MovesSorted(bd) ==
    \A k \in 1..(Len(bd.moves) - 1) : bd.moves[k].off < bd.moves[k + 1].off

\* the in-block indices of bd covered by some span of its moves list
MovedLines(bd) == UNION {SpanLines(bd.moves[k]) : k \in 1..Len(bd.moves)}

\* C1: after findMoves has finished, the spans in the moves list of every
\* IN_1 or IN_2 block are pairwise disjoint.
C1_MovesDisjoint ==
    pc = "findMovesDone" =>
        \A k \in 1..Len(blockDiffs) : MovesDisjoint(blockDiffs[k])

\* C2: after findMoves has finished, the moves list of every block is sorted
\* ascending by span offset.
C2_MovesSorted ==
    pc = "findMovesDone" =>
        \A k \in 1..Len(blockDiffs) : MovesSorted(blockDiffs[k])

\* the positions (block, in-block index) of IN_1 blocks no span covers
UnmovedIn1(bds) ==
    {<<k, i>> \in (1..Len(bds)) \X (0..(MaxLines1 + MaxLines2)) :
        /\ bds[k].type = DIFF_IN_1
        /\ i < bds[k].len
        /\ i \notin MovedLines(bds[k])}

\* a step in which resolveMatch returns true moves a position of an IN_1 block
\* that was unmoved
CommitMovesUnmoved ==
    fm'.commits > fm.commits =>
        /\ UnmovedIn1(blockDiffs') \subseteq UnmovedIn1(blockDiffs)
        /\ UnmovedIn1(blockDiffs') # UnmovedIn1(blockDiffs)

\* no step removes or changes a span: every moves list only grows at its end
NoSpanRemoved ==
    /\ Len(blockDiffs') = Len(blockDiffs)
    /\ \A k \in 1..Len(blockDiffs) :
        /\ Len(blockDiffs'[k].moves) >= Len(blockDiffs[k].moves)
        /\ SubSeq(blockDiffs'[k].moves, 1, Len(blockDiffs[k].moves)) = blockDiffs[k].moves

\* the move detector is scheduled until it returns: the engine is single-threaded
\* and runs to completion
SpecMovesFair == SpecMoves /\ WF_vars(NextMoves)

RECURSIVE AlignmentOf(_, _, _, _)
AlignmentOf(bds, k, i, j) ==
    IF k > Len(bds) THEN <<>>
    ELSE IF bds[k].type = DIFF_MATCH
        THEN [t \in 1..bds[k].len |-> <<i + t - 1, j + t - 1>>]
             \o AlignmentOf(bds, k + 1, i + bds[k].len, j + bds[k].len)
    ELSE IF bds[k].type = DIFF_IN_1 THEN AlignmentOf(bds, k + 1, i + bds[k].len, j)
    ELSE AlignmentOf(bds, k + 1, i, j + bds[k].len)

\* the segment list of the same alignment when the two inputs are exchanged
MirrorSegments(bds, n, m) ==
    LET al == AlignmentOf(bds, 1, 1, 1)
        mirrored == [t \in 1..Len(al) |-> <<al[t][2], al[t][1]>>]
    IN SegmentsFrom(mirrored, 1, 1, 1, m, n, <<>>)

\* the result of the move detector on the exchanged inputs: doc2 given as the
\* first document and doc1 as the second, along the same alignment of the lines
SwappedRun ==
    findMovesRun(findMovesEnter(
        [L1 |-> doc2.lines, L2 |-> doc1.lines,
         blockDiffs |-> MirrorSegments(blockDiffs, Len(doc1.lines), Len(doc2.lines)),
         pc |-> "findMoves", fm |-> 0, rs |-> 0]))

\* C4: swap symmetry of the move pairings: when the move detector has finished,
\* a line of doc1 is in a moved span paired with a line of doc2 iff it is when
\* the two documents are exchanged (same matched lines, IN_1 / IN_2 exchanged).
C4_SwapSymmetry ==
    pc = "findMovesDone" =>
        fm.pairs = {<<p[2], p[1]>> : p \in SwappedRun.fm.pairs}

-----------------------------------------------------------------------------
(* Specification of compareViews *)

Init ==
    \E inp \in RunInputs :
        /\ options = inp.options
        /\ text = inp.text
        /\ progress = ProgressInit(inp.info)
        /\ pc = "compareViews"
        /\ doc1 = DocCmpInfo(MAIN_VIEW)
        /\ doc2 = DocCmpInfo(SUB_VIEW)
        /\ blockDiffs = <<>>
        /\ fm = findMovesEnter([L1 |-> <<>>, L2 |-> <<>>, blockDiffs |-> <<>>,
                                pc |-> "compareViews", fm |-> 0, rs |-> 0]).fm
        /\ rs = NoFrame
        /\ loopI = 0
        /\ alignLines = <<0, 0>>
        /\ uniqueLines = <<<<>>, <<>>>>
        /\ alignmentInfo = inp.alignmentInfo
        /\ sink = <<>>
        /\ result = COMPARE_ERROR

Next ==
    \/ CompareViews
    \/ GetLines
    \/ NextPhase
    \/ DiffStage
    \/ FindMovesLoop
    \/ ResolveMatchCall
    \/ CompareBlocksLoop
    \/ MarkAllDiffs
    \/ MarkAllDiffsLoop
    \/ BuildUnique
    \/ FindUniqueMark
    \/ Return
    \/ UserCancel
    \/ Fault

Spec == Init /\ [][Next]_vars

-----------------------------------------------------------------------------
(* Claims about compareViews *)

\* the calls on the marker sink that set a marker on a line of a view
MarkersOn(view, line) ==
    {sink[k].mask : k \in {x \in DOMAIN sink : /\ sink[x].call = "SCI_MARKERADDSET"
                                                /\ sink[x].view = view
                                                /\ sink[x].line = line}}

\* the run of the move scenario has returned COMPARE_MISMATCH
ScenarioDone ==
    /\ text[MAIN_VIEW] = ScenarioMain
    /\ text[SUB_VIEW] = ScenarioSub
    /\ options.detectMoves
    /\ pc = "done"
    /\ result = COMPARE_MISMATCH

\* C5 (as stated): in the move scenario [A,B,C,D,E] against [A,D,B,C,E] lines B,C
\* are one moved span of length 2 on both sides (MOVED_BEGIN on B, MOVED_END on C)
\* and D gets no marker.
C5_ScenarioMovesBC ==
    ScenarioDone =>
        /\ MarkersOn(MAIN_VIEW, 1) = {MARKER_MASK_MOVED_BEGIN}
        /\ MarkersOn(MAIN_VIEW, 2) = {MARKER_MASK_MOVED_END}
        /\ MarkersOn(SUB_VIEW, 2) = {MARKER_MASK_MOVED_BEGIN}
        /\ MarkersOn(SUB_VIEW, 3) = {MARKER_MASK_MOVED_END}
        /\ MarkersOn(MAIN_VIEW, 3) = {}
        /\ MarkersOn(SUB_VIEW, 1) = {}

\* C5 (amended): in the move scenario [A,B,C,D,E] against [A,D,B,C,E] line D is a
\* moved line on both sides (MOVED_LINE on line 3 of the main view and on line 1
\* of the sub view, the only two calls on the marker sink), and A, B, C, E stay in
\* place in MATCH blocks without a marker.
C5_ScenarioMovesD ==
    ScenarioDone =>
        /\ Len(sink) = 2
        /\ MarkersOn(MAIN_VIEW, 3) = {MARKER_MASK_MOVED_LINE}
        /\ MarkersOn(SUB_VIEW, 1) = {MARKER_MASK_MOVED_LINE}
        /\ \A k \in DOMAIN blockDiffs :
              blockDiffs[k].type # DIFF_MATCH =>
                  blockDiffs[k].len = 1 /\ blockDiffs[k].moves = <<section_t(0, 1)>>

\* C5 witness: the scenario run has emitted its markers and returned
C5_Witness == ScenarioDone /\ sink # <<>>

\* no call is made on the marker sink once a poll has reported the cancellation
NoCallAfterCancel == progress.reported => sink' = sink

\* a cancellation reported in getLines leaves the lines of the document empty
\* and the marker sink untouched
CancelInGetLines ==
    pc \in {"getLines1", "getLines2"} /\ progress'.reported =>
        /\ sink' = <<>>
        /\ (IF pc = "getLines1" THEN doc1' ELSE doc2').lines = <<>>

\* C6: if a poll of the progress object reports the cancellation, compareViews
\* returns COMPARE_CANCELLED and no call is made on the marker sink after that
\* poll; a cancellation reported in getLines leaves the lines of the document
\* empty and the marker sink untouched.
C6_Cancellation ==
    /\ [](pc = "done" /\ progress.reported => result = COMPARE_CANCELLED)
    /\ [][NoCallAfterCancel /\ CancelInGetLines]_vars

\* C6 witness: the cancellation was reported by the poll of the loop of
\* markAllDiffs, after markers had been set, and compareViews has returned
C6_Witness ==
    /\ pc = "done"
    /\ progress.reported
    /\ sink # <<>>
    /\ loopI < Len(blockDiffs)

\* the pairs of the alignment output are those the caller had put there
NoPairOfTheRun == \A k \in DOMAIN alignmentInfo : alignmentInfo[k] = StalePair

\* C7: when an exception is thrown at any point of the run, compareViews
\* returns COMPARE_ERROR and the alignment output holds no pair produced by
\* the run.
C7_NoPartialAlignment ==
    pc = "done" /\ result = COMPARE_ERROR => NoPairOfTheRun

\* C8: the calls on the marker sink for each view are in non-decreasing line
\* order, and the lines of successive alignment pairs are non-decreasing on
\* each side.
C8_Ordering ==
    /\ \A i, j \in DOMAIN sink :
          i < j /\ sink[i].view = sink[j].view => sink[i].line <= sink[j].line
    /\ \A k \in 1..(Len(alignmentInfo) - 1) :
          /\ alignmentInfo[k].main.line <= alignmentInfo[k + 1].main.line
          /\ alignmentInfo[k].sub.line <= alignmentInfo[k + 1].sub.line

\* the two documents give the same normalized line hashes
NormalizedEqual ==
    normalized(text[MAIN_VIEW], MAIN_VIEW, options)
        = normalized(text[SUB_VIEW], SUB_VIEW, options)

\* C9: when the normalized line sequences of the two documents are equal, the
\* run makes no call on the marker sink and appends no alignment pair, and,
\* unless it is cancelled or stopped by an exception, returns COMPARE_MATCH.
C9_IdentityMatch ==
    NormalizedEqual =>
        /\ sink = <<>>
        /\ NoPairOfTheRun
        /\ pc = "done" =>
              \/ result = COMPARE_MATCH
              \/ result = COMPARE_CANCELLED /\ progress.reported
              \/ result = COMPARE_ERROR

\* C9 witness: two different documents equal once normalized have been compared,
\* the alignment output holding a pair of an earlier run
C9_Witness ==
    /\ pc = "done"
    /\ NormalizedEqual
    /\ text[MAIN_VIEW] # text[SUB_VIEW]
    /\ result = COMPARE_MATCH
    /\ alignmentInfo = <<StalePair>>

-----------------------------------------------------------------------------
(* Specification of the line extraction alone, with ignoreEmptyLines set:    *)
(* the two documents are the same lines with blank lines (nothing but spaces *)
(* and tabs, or nothing) inserted on either side.                            *)

MaxBlankLines == 3

BlankLines == {<<>>, <<" ">>, <<"\t">>}

TextLines == {<<"a">>, <<" ", "b">>}

\* a line made of nothing but spaces and tabs, or of nothing
IsBlank(line) == \A k \in DOMAIN line : line[k] = " " \/ line[k] = "\t"

\* the lines of a document that are not blank
NonBlank(d) == SelectSeq(d, LAMBDA line : ~IsBlank(line))

\* the two documents differ only in blank lines inserted into either of them
BlankInsertion == NonBlank(text[MAIN_VIEW]) = NonBlank(text[SUB_VIEW])

InitLines ==
    \E d1 \in SeqsUpTo(BlankLines \cup TextLines, MaxBlankLines),
       d2 \in SeqsUpTo(BlankLines \cup TextLines, MaxBlankLines),
       is \in BOOLEAN :
        /\ NonBlank(d1) = NonBlank(d2)
        /\ options = [BaseOptions EXCEPT !.ignoreEmptyLines = TRUE, !.ignoreSpaces = is]
        /\ text = [v \in Views |-> IF v = MAIN_VIEW THEN Document(d1) ELSE Document(d2)]
        /\ progress = NoProgress
        /\ pc = "getLines1"
        /\ doc1 = docSetup(MAIN_VIEW, options)
        /\ doc2 = docSetup(SUB_VIEW, options)
        /\ blockDiffs = <<>>
        /\ fm = findMovesEnter([L1 |-> <<>>, L2 |-> <<>>, blockDiffs |-> <<>>,
                                pc |-> "getLines1", fm |-> 0, rs |-> 0]).fm
        /\ rs = NoFrame
        /\ loopI = 0
        /\ alignLines = <<0, 0>>
        /\ uniqueLines = <<<<>>, <<>>>>
        /\ alignmentInfo = <<>>
        /\ sink = <<>>
        /\ result = COMPARE_ERROR

\* the two NextPhase polls of runCompare that follow getLines
LinesNextPhase == pc \in {"nextPhase1", "nextPhase2"} /\ NextPhase

\* the run up to the block diff: getLines on both documents, then DiffCalc
NextLines == GetLines \/ LinesNextPhase \/ DiffStage

SpecLines == InitLines /\ [][NextLines]_vars

\* both documents have been through getLines
LinesExtracted == pc \notin {"getLines1", "nextPhase1", "getLines2"}

\* the lines of a document that are not of zero length
NonEmpty(d) == SelectSeq(d, LAMBDA line : line # <<>>)

\* the inserted blank lines leave no trace: the normalized line hashes of the
\* two documents are equal and so the block diff is that of a document with
\* itself (runCompare returns COMPARE_MATCH)
BlankLinesIgnored ==
    /\ LinesExtracted
    /\ pc \in {"nextPhase2", "DiffCalc"} => Hashes(doc1.lines) = Hashes(doc2.lines)
    /\ pc \notin {"nextPhase2", "DiffCalc"} => pc = "return" /\ result = COMPARE_MATCH

\* C10 (as stated): with ignoreEmptyLines set, whatever ignoreSpaces is,
\* inserting blank lines (nothing but spaces and tabs, or nothing) into either
\* document leaves the normalized line hashes of getLines, and so the block
\* diff, unchanged.
C10_BlankLinesIgnored ==
    options.ignoreEmptyLines /\ BlankInsertion /\ LinesExtracted => BlankLinesIgnored

\* C10 (amended): with ignoreEmptyLines set, inserting lines of zero length
\* into either document - and, when ignoreSpaces is set too, lines made of
\* nothing but spaces and tabs - leaves the normalized line hashes of getLines,
\* and so the block diff, unchanged.
C10_EmptyLinesIgnored ==
    /\ options.ignoreEmptyLines
    /\ IF options.ignoreSpaces
       THEN NonBlank(text[MAIN_VIEW]) = NonBlank(text[SUB_VIEW])
       ELSE NonEmpty(text[MAIN_VIEW]) = NonEmpty(text[SUB_VIEW])
    /\ LinesExtracted
    => BlankLinesIgnored

\* C10 witness: with ignoreSpaces set, a document without blank lines has been
\* compared with the same lines and a line of one space, and they match
C10_Witness ==
    /\ pc = "return"
    /\ result = COMPARE_MATCH
    /\ options.ignoreEmptyLines
    /\ options.ignoreSpaces
    /\ NonBlank(text[MAIN_VIEW]) = text[MAIN_VIEW]
    /\ text[MAIN_VIEW] # <<>>
    /\ \E k \in DOMAIN text[SUB_VIEW] : text[SUB_VIEW][k] = <<" ">>

-----------------------------------------------------------------------------
(* Claims about the block re-aligner *)

\* the in-block line indices of a changedLines list are strictly increasing
LinesIncreasing(cl) == \A k \in 1..(Len(cl) - 1) : cl[k].line < cl[k + 1].line

\* C11: in every block the changedLines entries have strictly increasing
\* in-block line indices - on both blocks of a paired (IN_1, IN_2), whether or
\* not the word-level DiffCalc reported a swap.
C11_ChangedLinesIncreasing ==
    \A k \in DOMAIN blockDiffs : LinesIncreasing(blockDiffs[k].changedLines)

\* C11 witness: the block re-aligner has left two changed lines in both blocks
\* of a pair
C11_Witness ==
    /\ pc = "nextPhase4"
    /\ \E k \in DOMAIN blockDiffs :
          /\ blockDiffs[k].type = DIFF_IN_1
          /\ blockDiffs[k].matchBlock = k + 1
          /\ Len(blockDiffs[k].changedLines) >= 2
          /\ Len(blockDiffs[k + 1].changedLines) >= 2

\* the document a block belongs to: doc1 for an IN_1 block, doc2 for an IN_2 block
DocOf(bd) == IF bd.type = DIFF_IN_2 THEN doc2 ELSE doc1

\* the number of bytes of the line a changedLines entry of block bd is recorded for
ChangedLineLength(bd, e) ==
    Len(getLineText(text[DocOf(bd).view], At(DocOf(bd).lines, bd.off + e.line).line))

\* a change interval is not empty and lies within a line of lineLen bytes
WithinLine(change, lineLen) ==
    /\ change.len >= 1
    /\ 0 <= change.off
    /\ change.off + change.len <= lineLen

\* C12: every change interval of a changedLines entry has length >= 1 and lies
\* within the byte range of the line it is recorded for, the line being the one
\* of the document the entry's block belongs to.
C12_ChangesWithinLine ==
    \A k \in DOMAIN blockDiffs :
        \A x \in DOMAIN blockDiffs[k].changedLines :
            LET e == blockDiffs[k].changedLines[x]
            IN \A y \in DOMAIN e.changes :
                  WithinLine(e.changes[y], ChangedLineLength(blockDiffs[k], e))

\* block k is linked to a partner
Linked(k) == blockDiffs[k].matchBlock # 0

\* blocks a and b are an IN_1 block and the IN_2 block right after it
PairedInOrder(a, b) ==
    /\ b = a + 1
    /\ blockDiffs[a].type = DIFF_IN_1
    /\ blockDiffs[b].type = DIFF_IN_2

\* C13: matchBlock is symmetric at every point of a run - the partner of a
\* linked block is linked back to it, the two are an IN_1 block and the IN_2
\* block immediately following it, and no block is the partner of two blocks.
C13_MatchBlockSymmetric ==
    /\ \A k \in DOMAIN blockDiffs :
          Linked(k) =>
            LET m == blockDiffs[k].matchBlock
            IN /\ m \in DOMAIN blockDiffs
               /\ blockDiffs[m].matchBlock = k
               /\ PairedInOrder(k, m) \/ PairedInOrder(m, k)
    /\ \A k, m \in DOMAIN blockDiffs :
          (Linked(k) /\ blockDiffs[k].matchBlock = blockDiffs[m].matchBlock) => k = m

\* C13 witness: the block-compare loop has linked a pair of blocks and gone on
C13_Witness ==
    /\ pc = "markAllDiffsLoop"
    /\ \E k \in DOMAIN blockDiffs : Linked(k) /\ blockDiffs[k].type = DIFF_IN_1

-----------------------------------------------------------------------------
(* Claims about the alignment output *)

\* the document shown in view
ViewDoc(view) == IF doc1.view = view THEN doc1 ELSE doc2

\* the diff masks an alignment entry of view may carry: none, changed, and the
\* block mask of the view (REMOVED for the old file's view, ADDED for the other)
ViewMasks(view) ==
    {NoMask, MARKER_MASK_CHANGED,
     IF options.oldFileViewId = view THEN MARKER_MASK_REMOVED ELSE MARKER_MASK_ADDED}

\* the line numbers an alignment entry of view may carry: in find-unique mode
\* the offset of the view's section; in a full compare the alignment lines of
\* the view's normalized lines and, in a selection compare, the selection's end
ViewLines(view) ==
    IF options.findUniqueMode
    THEN {IF options.selectionCompare THEN options.selections[view][1] ELSE 0}
    ELSE UNION {toAlignmentLine(ViewDoc(view), k) : k \in 0..Len(ViewDoc(view).lines)}
            \cup (IF options.selectionCompare THEN {options.selections[view][2]} ELSE {})

\* the alignment pairs a step appends to the alignment output
PairsEmitted ==
    IF Len(alignmentInfo') > Len(alignmentInfo)
    THEN {alignmentInfo'[k] : k \in (Len(alignmentInfo) + 1)..Len(alignmentInfo')}
    ELSE {}

MainIsMainView ==
    \A pair \in PairsEmitted :
        /\ pair.main.line \in ViewLines(MAIN_VIEW)
        /\ pair.main.diffMask \in ViewMasks(MAIN_VIEW)
        /\ pair.sub.line \in ViewLines(SUB_VIEW)
        /\ pair.sub.diffMask \in ViewMasks(SUB_VIEW)

\* C14: in every alignment pair emitted, in both modes, the main entry carries
\* a line number and a diff mask of the document shown in MAIN_VIEW and the sub
\* entry those of the document shown in SUB_VIEW, whether or not the line-level
\* DiffCalc reported swapped.
C14_MainIsMainView == [][MainIsMainView]_vars

\* C14 witness: the line-level DiffCalc reported swapped (doc1 is the document
\* of SUB_VIEW) and a pair with a block mask on its main entry was emitted
C14_Witness ==
    /\ pc = "done"
    /\ result = COMPARE_MISMATCH
    /\ ~options.findUniqueMode
    /\ doc1.view = SUB_VIEW
    /\ \E k \in DOMAIN alignmentInfo :
          alignmentInfo[k].main.diffMask \in {MARKER_MASK_REMOVED, MARKER_MASK_ADDED}

\* the bytes a change interval covers in the line it is recorded for
ChangedBytes(bd, e, change) ==
    SubSeq(getLineText(text[DocOf(bd).view], At(DocOf(bd).lines, bd.off + e.line).line),
           change.off + 1, change.off + change.len)

\* the run compares the documents of the substitution scenario
SubstitutionRun ==
    /\ text[MAIN_VIEW] = SubstitutionMain
    /\ text[SUB_VIEW] = SubstitutionSub

\* the block-compare loop of the run is over
BlocksCompared ==
    pc \in {"nextPhase4", "markAllDiffs", "markAllDiffsLoop", "nextPhase5"}

\* C15: substitution scenario - comparing ["prefix_OLD_suffix"] with
\* ["prefix_NEW_suffix"], charPrecision = true and matchPercentThreshold = 50,
\* yields one paired (IN_1, IN_2) with exactly one changedLines pair, whose only
\* change interval covers exactly the bytes of "OLD" (offset 7, length 3) on
\* side 1 and exactly the bytes of "NEW" on side 2.
C15_Substitution ==
    (SubstitutionRun /\ BlocksCompared) =>
        /\ Len(blockDiffs) = 2
        /\ PairedInOrder(1, 2)
        /\ blockDiffs[1].matchBlock = 2 /\ blockDiffs[2].matchBlock = 1
        /\ \A k \in 1..2 :
              /\ Len(blockDiffs[k].changedLines) = 1
              /\ blockDiffs[k].changedLines[1].line = 0
              /\ blockDiffs[k].changedLines[1].changes = <<section_t(7, 3)>>
              /\ ChangedBytes(blockDiffs[k], blockDiffs[k].changedLines[1], section_t(7, 3))
                    = IF DocOf(blockDiffs[k]).view = MAIN_VIEW
                      THEN <<"O", "L", "D">> ELSE <<"N", "E", "W">>

\* C15 witness: the run of the substitution scenario has compared its blocks
C15_Witness ==
    /\ SubstitutionRun
    /\ pc = "nextPhase4"
    /\ Len(blockDiffs) = 2
    /\ blockDiffs[1].changedLines # <<>>

-----------------------------------------------------------------------------
(* Claims about findBestMatch *)

\* the greatest element of a set of naturals, 0 for the empty set
Max0(S) == IF S = {} THEN 0 ELSE CHOOSE x \in S : \A y \in S : y <= x

\* the positions (block, in-block index) findBestMatch may be asked about
LookupPositions ==
    {q \in (1..Len(blockDiffs)) \X (0..(MaxLines1 - 1)) :
        /\ blockDiffs[q[1]].type # DIFF_MATCH
        /\ q[2] < blockDiffs[q[1]].len}

\* the longest of the candidate runs cs and the places in cs where it is reached
LongestRun(cs) == Max0({cs[k].matchLen : k \in DOMAIN cs})

LongestAt(cs) == {k \in DOMAIN cs : cs[k].matchLen = LongestRun(cs)}

\* what findBestMatch returns for the candidate runs cs of position lookupOff
BestOfCandidates(mi, cs, lookupOff) ==
    /\ mi.matchLen = LongestRun(cs)
    /\ mi.matchDiff # 0 <=> Cardinality(LongestAt(cs)) = 1
    /\ mi.matchDiff # 0 =>
          /\ \E k \in LongestAt(cs) : mi = cs[k]
          /\ mi.matchLen >= 1
          /\ mi.lookupOff <= lookupOff
          /\ lookupOff < mi.lookupOff + mi.matchLen

\* C17: findBestMatch returns a non-null matchDiff iff the maximal length of the
\* candidate runs found for the position, over all blocks of the opposite type,
\* is reached by exactly one candidate (a tie for the maximal length nulls the
\* match); the run it returns is that candidate, has length >= 1 and contains
\* the position.
C17_BestMatchUnique ==
    \A q \in LookupPositions :
        BestOfCandidates(findBestMatch(doc1.lines, doc2.lines, blockDiffs, q[1], q[2]),
                         candidateRuns(doc1.lines, doc2.lines, blockDiffs, q[1], q[2]),
                         q[2])

\* C17 witness: with a moved span already in place, findMoves holds a match of
\* length >= 1 that a tie has nulled
C17_Witness ==
    /\ fm.mi.matchDiff = 0
    /\ fm.mi.matchLen >= 1
    /\ \E k \in DOMAIN blockDiffs : blockDiffs[k].moves # <<>>

\* the in-block indices a run of len positions from off covers
RunLines(off, len) == off .. (off + len - 1)

\* C18: every run recorded by findBestMatch - lookup positions
\* [lookupOff, lookupOff + matchLen) and match positions
\* [matchOff, matchOff + matchLen) - contains no position already covered by a
\* moves span, on the lookup block and on the match block.  (rs holds the
\* arguments and the result of the last findBestMatch call while resolveMatch
\* is about to look at it.)
C18_RunsUnmoved ==
    (pc = "resolveMatch" /\ rs.mi.matchDiff # 0) =>
        /\ RunLines(rs.mi.lookupOff, rs.mi.matchLen)
              \cap MovedLines(blockDiffs[rs.lookupDiff]) = {}
        /\ RunLines(rs.mi.matchOff, rs.mi.matchLen)
              \cap MovedLines(blockDiffs[rs.mi.matchDiff]) = {}

-----------------------------------------------------------------------------
(* Claims about compareBlocks *)

\* the Chars of the lines of block bd after normalization
ChunkOf(bd) == getChars(DocOf(bd), text[DocOf(bd).view], bd.off, bd.len, options)

\* the lines line1 of block bd1 and line2 of block bd2 pass the character-count
\* prefilter and their convergence reaches the threshold
PairAccepted(bd1, bd2, line1, line2) ==
    LET c1 == Chs(At(ChunkOf(bd1), line1))
        c2 == Chs(At(ChunkOf(bd2), line2))
    IN /\ c1 # <<>> /\ c2 # <<>>
       /\ (Min(Len(c1), Len(c2)) * 100) \div Max(Len(c1), Len(c2))
             >= options.matchPercentThreshold
       /\ LcsLen(c1, c2, 1, 1) * 100 >= options.matchPercentThreshold * Max(Len(c1), Len(c2))

\* no changedLines entry of block bd is for a moved line or for a line that is
\* empty after normalization
ChangedUnmoved(bd) ==
    \A x \in DOMAIN bd.changedLines :
        /\ bd.changedLines[x].line \notin MovedLines(bd)
        /\ At(ChunkOf(bd), bd.changedLines[x].line) # <<>>

\* the changedLines entries of the paired blocks bd1, bd2 come in pairs of
\* accepted lines, and no line is in two pairs
ChangedPairs(bd1, bd2) ==
    /\ Len(bd1.changedLines) = Len(bd2.changedLines)
    /\ \A x \in DOMAIN bd1.changedLines :
          PairAccepted(bd1, bd2, bd1.changedLines[x].line, bd2.changedLines[x].line)
    /\ \A x, y \in DOMAIN bd1.changedLines :
          x # y => /\ bd1.changedLines[x].line # bd1.changedLines[y].line
                   /\ bd2.changedLines[x].line # bd2.changedLines[y].line

\* the line pairs compareBlocks considers for the blocks bd1, bd2 are accepted
\* pairs of unmoved lines, and the assignment it retains maps each line of
\* either block to at most one line of the other
AssignmentOneToOne(bd1, bd2) ==
    LET ocs  == orderedLinesConvergence(bd1, bd2, ChunkOf(bd1), ChunkOf(bd2), options)
        best == bestLineMappings(ocs, 1, bd1.len, bd2.len, 0, <<>>)
    IN /\ \A x \in DOMAIN ocs :
            /\ PairAccepted(bd1, bd2, ocs[x].line1, ocs[x].line2)
            /\ ocs[x].line1 \notin MovedLines(bd1)
            /\ ocs[x].line2 \notin MovedLines(bd2)
       /\ \A x, y \in DOMAIN best :
            x # y => best[x].line1 # best[y].line1 /\ best[x].line2 # best[y].line2

\* C19: moved and changed are exclusive - the block re-aligner never enters in
\* changedLines a line covered by a moves span of its block nor a line that is
\* empty after normalization; every line pair it considers passed the
\* character-count prefilter and has convergence >= matchPercentThreshold, and
\* the retained assignment maps each line of either block to at most one line
\* of the other.
C19_MovedChangedExclusive ==
    /\ \A k \in DOMAIN blockDiffs : ChangedUnmoved(blockDiffs[k])
    /\ \A k \in 1..(Len(blockDiffs) - 1) :
          (PairedInOrder(k, k + 1) /\ (pc = "compareBlocks" \/ BlocksCompared)) =>
              /\ ChangedPairs(blockDiffs[k], blockDiffs[k + 1])
              /\ AssignmentOneToOne(blockDiffs[k], blockDiffs[k + 1])

\* C19 witness: a pair of blocks has been compared in which a line is changed
\* and another, not empty, is covered by a moves span
C19_Witness ==
    /\ pc = "nextPhase4"
    /\ \E k \in 1..(Len(blockDiffs) - 1) :
          /\ PairedInOrder(k, k + 1)
          /\ blockDiffs[k].changedLines # <<>>
          /\ \E j \in {k, k + 1} : \E x \in MovedLines(blockDiffs[j]) :
                /\ x < blockDiffs[j].len
                /\ At(ChunkOf(blockDiffs[j]), x) # <<>>

-----------------------------------------------------------------------------
(* Claims about the line arrays at emission *)

\* C20: whenever the run reaches marker / alignment emission (the block list is
\* neither empty nor a single MATCH), the normalized line arrays of both
\* documents are non-empty, so toAlignmentLine never reads front() or back() of
\* an empty array - also when one document is empty, or has only lines dropped
\* by ignoreEmptyLines, and the other is not.
C20_LinesNonEmptyAtEmission ==
    pc \in {"markAllDiffs", "markAllDiffsLoop"} =>
        /\ doc1.lines # <<>>
        /\ doc2.lines # <<>>

-----------------------------------------------------------------------------
(* Claims about the find-unique mode *)

\* the normalized lines of the document shown in view
NormalizedLines(view) ==
    getLines(docSetup(view, options), text[view], options, NoProgress).doc.lines

OtherView(view) == IF view = MAIN_VIEW THEN SUB_VIEW ELSE MAIN_VIEW

\* the block mask of a view: REMOVED for the old file's view, ADDED for the other
SideMask(view) ==
    IF options.oldFileViewId = view THEN MARKER_MASK_REMOVED ELSE MARKER_MASK_ADDED

\* the normalized line l of view has a hash no normalized line of the other view has
IsUnique(view, l) ==
    \A k \in DOMAIN NormalizedLines(OtherView(view)) :
        NormalizedLines(OtherView(view))[k].hash # l.hash

\* the original line numbers of the unique lines of view
UniqueOf(view) ==
    {NormalizedLines(view)[k].line :
        k \in {j \in DOMAIN NormalizedLines(view) : IsUnique(view, NormalizedLines(view)[j])}}

\* the lines of view the marker sink was asked to mark with mask
MarkedWith(view, mask) ==
    {sink[k].line : k \in {j \in DOMAIN sink : /\ sink[j].call = "SCI_MARKERADDSET"
                                                /\ sink[j].view = view
                                                /\ sink[j].mask = mask}}

\* a find-unique run has returned without being cancelled and without a fault
UniqueRunDone ==
    /\ pc = "done"
    /\ options.findUniqueMode
    /\ result \in {COMPARE_MATCH, COMPARE_MISMATCH}

\* C16: in find-unique mode, when the run is not cancelled, a line of either
\* document receives its side's REMOVED / ADDED marker iff its normalized hash
\* occurs in no normalized line of the other document; the result is MATCH,
\* with no marker written and no alignment pair, iff no line of either side is
\* unique, otherwise MISMATCH with exactly one alignment pair holding the two
\* section offsets.
C16_FindUnique ==
    UniqueRunDone =>
        /\ \A v \in Views : MarkedWith(v, SideMask(v)) = UniqueOf(v)
        /\ \A k \in DOMAIN sink :
              /\ sink[k].call = "SCI_MARKERADDSET"
              /\ sink[k].mask = SideMask(sink[k].view)
        /\ result = COMPARE_MATCH <=> \A v \in Views : UniqueOf(v) = {}
        /\ result = COMPARE_MATCH => sink = <<>> /\ alignmentInfo = <<>>
        /\ result = COMPARE_MISMATCH =>
              alignmentInfo =
                  <<[main |-> [line |-> docSetup(MAIN_VIEW, options).section.off,
                               diffMask |-> NoMask],
                     sub  |-> [line |-> docSetup(SUB_VIEW, options).section.off,
                               diffMask |-> NoMask]]>>

\* C16 witness: a find-unique run has returned MISMATCH for documents that
\* have a common line and a unique line each
C16_Witness ==
    /\ UniqueRunDone
    /\ result = COMPARE_MISMATCH
    /\ \A v \in Views :
          /\ UniqueOf(v) # {}
          /\ \E k \in DOMAIN NormalizedLines(v) : ~IsUnique(v, NormalizedLines(v)[k])

-----------------------------------------------------------------------------
(* Claims about markSection *)

\* the masks markSection writes
SectionMasks ==
    {MARKER_MASK_ADDED, MARKER_MASK_REMOVED, MARKER_MASK_ADDED_LOCAL,
     MARKER_MASK_REMOVED_LOCAL, MARKER_MASK_MOVED_LINE, MARKER_MASK_MOVED_BEGIN,
     MARKER_MASK_MOVED_MID, MARKER_MASK_MOVED_END}

\* the original lines from the first to the last line of block bd
BlockSpan(bd) ==
    IF bd.len = 0 THEN {}
    ELSE At(DocOf(bd).lines, bd.off).line .. At(DocOf(bd).lines, bd.off + bd.len - 1).line

\* the sections of block bd markAllDiffs passes to markSection: the whole block,
\* or for a paired block the lines before, between and after its changed lines
SectionsOf(bd) ==
    LET cl == bd.changedLines
        start(j) == IF j = 0 THEN 0 ELSE cl[j].line + 1
        stop(j) == IF j = Len(cl) THEN bd.len ELSE cl[j + 1].line
    IN  {section_t(start(j), stop(j) - start(j)) :
            j \in {k \in 0..Len(cl) : stop(k) - start(k) # 0}}

\* the blocks the turn of the loop of markAllDiffs at loopI works on
BlocksOfTurn ==
    IF At(blockDiffs, loopI).type = DIFF_MATCH THEN {}
    ELSE IF At(blockDiffs, loopI).type = DIFF_IN_1 /\ At(blockDiffs, loopI).matchBlock # 0
    THEN {At(blockDiffs, loopI), blockDiffs[At(blockDiffs, loopI).matchBlock]}
    ELSE {At(blockDiffs, loopI)}

\* in a turn of the loop of markAllDiffs, markSection reads doc.lines inside the
\* block only, and the ADDED / REMOVED / MOVED markers the turn writes are on
\* lines of the view of the block between its first and its last line
MarkSectionInBlock ==
    (pc = "markAllDiffsLoop" /\ loopI < Len(blockDiffs)) =>
        /\ \A bd \in BlocksOfTurn : \A sec \in SectionsOf(bd) :
              markSectionReads([DocOf(bd) EXCEPT !.section = sec], bd)
                  \subseteq bd.off .. (bd.off + bd.len - 1)
        /\ \A k \in (Len(sink) + 1) .. Len(sink') :
              sink'[k].mask \in SectionMasks =>
                  \E bd \in BlocksOfTurn :
                      /\ sink'[k].view = DocOf(bd).view
                      /\ sink'[k].line \in BlockSpan(bd)

\* C21: for every block and section passed to markSection after moves have been
\* detected, every index of the normalized lines it reads lies inside the block
\* and every marker it writes is on an original line between the first and the
\* last line of the block, so that no line of a MATCH block or of another block
\* receives an ADDED / REMOVED / MOVED marker.
C21_MarkSectionInBlock == [][MarkSectionInBlock]_vars

-----------------------------------------------------------------------------
(* Claims about compareLines *)

\* the line mappings compareBlocks hands to compareLines for the blocks bd1, bd2
MappingsOf(bd1, bd2) ==
    bestLineMappings(orderedLinesConvergence(bd1, bd2, ChunkOf(bd1), ChunkOf(bd2), options),
                     1, bd1.len, bd2.len, 0, <<>>)

\* what compareLines may record for the lines line1 of bd1 and line2 of bd2
OutcomesOf(bd1, bd2, line1, line2) ==
    UNION {linePairOutcomes(text, doc1, doc2, bd1, bd2, line1, line2, r, options) :
             r \in DiffCalc(
                 WordHashes(getLineWords(text[doc1.view],
                                         At(doc1.lines, bd1.off + line1).line, options)),
                 WordHashes(getLineWords(text[doc2.view],
                                         At(doc2.lines, bd2.off + line2).line, options)))}

\* the changedLines lists of the paired blocks bd1, bd2 have the same length and
\* their j-th entries are the two entries of one mapped pair that passed the
\* whole-line test
ChangedByIndex(bd1, bd2) ==
    /\ Len(bd1.changedLines) = Len(bd2.changedLines)
    /\ \A j \in DOMAIN bd1.changedLines :
          /\ \E best \in {MappingsOf(bd1, bd2)} : \E x \in DOMAIN best :
                /\ best[x].line1 = bd1.changedLines[j].line
                /\ best[x].line2 = bd2.changedLines[j].line
          /\ \E o \in OutcomesOf(bd1, bd2, bd1.changedLines[j].line, bd2.changedLines[j].line) :
                /\ o.keep
                /\ o.e1 = bd1.changedLines[j]
                /\ o.e2 = bd2.changedLines[j]

\* C22: for every paired (IN_1, IN_2), after each line pair processed by
\* compareLines the two changedLines lists have the same length and their j-th
\* entries are the two lines of the same accepted pair - entries are appended to
\* both blocks together and, on the whole-line reject, removed from both
\* together - so that the emitter may pair them by index.
C22_ChangedLinesParallel ==
    \A k \in 1..(Len(blockDiffs) - 1) :
        (PairedInOrder(k, k + 1) /\ pc \in {"compareBlocks", "nextPhase4"}) =>
            ChangedByIndex(blockDiffs[k], blockDiffs[k + 1])

\* C22 witness: a pair of blocks has been compared, the first mapped pair of
\* lines failed the whole-line test and a later one was kept
C22_Witness ==
    /\ pc = "nextPhase4"
    /\ \E k \in 1..(Len(blockDiffs) - 1) :
          /\ PairedInOrder(k, k + 1)
          /\ blockDiffs[k].changedLines # <<>>
          /\ \E best \in {MappingsOf(blockDiffs[k], blockDiffs[k + 1])} :
                /\ best # <<>>
                /\ \A o \in OutcomesOf(blockDiffs[k], blockDiffs[k + 1],
                                       best[1].line1, best[1].line2) :
                       ~o.keep

=============================================================================
